---- MODULE Spec2Model ----
(***************************************************************************)
(* ClayCode assembly pipeline: Solvent (density-retry loop), the Builder   *)
(* stages and the pipeline driver run().                                   *)
(*                                                                         *)
(* Lengths are integers in tenths of an Angstrom (0.4 A = 4, 5 A = 50);    *)
(* lateral dimensions x_dim, y_dim are integers in Angstrom.  The padding  *)
(* increments used below (0.0, 0.4, 1.0, 2.5 A) accumulate in binary       *)
(* floating point to the same comparisons against 5 as in exact            *)
(* arithmetic, so the fixed-point model takes the same branches.           *)
(***************************************************************************)
EXTENDS Integers, Sequences, FiniteSets, TLC

\* Python None among non-negative integers
None == 0 - 1

\* ------------------------------------------------------------------------
\* Bounds of the model
\* ------------------------------------------------------------------------
\* number of write() calls made on one Solvent object
MaxWrites == 2
\* the counters of bulk-loop iterations and of "y" answers saturate here
MaxIterations == 3
\* the attempt counter and the list of issued box heights saturate here
MaxAttempts == 14

\* ------------------------------------------------------------------------
\* Program constants
\* ------------------------------------------------------------------------
\* `if self._z_padding > 5` (Angstrom), in tenths
PaddingCeiling == 50
\* min_height: float = 1.5
DefaultMinHeight == 15
\* z_padding: float = 0.4
DefaultZPadding == 4
\* mw_sol / (N_Avogadro * solv_density) = 18 / 0.6022 = 29.89 A^3 per
\* molecule, rounded to the integer grid of the model (mw_sol = 18)
MolVolume == 30

\* ------------------------------------------------------------------------
\* Input sets
\* ------------------------------------------------------------------------
\* z_padding increments a Solvent is constructed with (0.0, 0.4, 1.0, 2.5 A)
Increments == {0, DefaultZPadding, 10, 25}
\* n_mols arguments (None: not given)
NMolsArgs == {None, 3, 500}
\* z_dim arguments in tenths of an Angstrom (None: not given)
ZDimArgs == {None, 5, 30}
\* n_ions arguments (None: not given)
NIonsArgs == {None, 1}
\* lateral dimensions (x_dim, y_dim) in Angstrom
LateralDims == {<<10, 10>>}

VARIABLES
    \* ---- Solvent object ----
    solv_pc,                \* position in Solvent.__init__ / Solvent.write
    x_dim, y_dim,           \* self.x_dim, self.y_dim
    z_dim_,                 \* self._z_dim
    z_padding,              \* self._z_padding
    z_padding_increment,    \* self._z_padding_increment
    n_mols,                 \* self.n_mols
    min_height,             \* self.min_height
    solv,                   \* count in the last solvation report (None: no count)
    prev_solv,              \* count in the report before the last one
    universe_set,           \* write() stored the produced structure
    \* ---- observations of the current write() call ----
    writes,                 \* write() calls started on this Solvent
    attempts,               \* run_gmx_solvate calls of the current write()
    underfills,             \* attempts of the current write() whose check raised
    boxes,                  \* box heights passed to run_gmx_solvate, in order
    base0,                  \* self._z_dim as set by __init__
    pad0,                   \* self._z_padding when the current write() was entered
    \* ---- arguments (args) read by run() and Builder ----
    args_il_solv,           \* args.il_solv
    args_tot,               \* args.match_charge["tot"]
    args_n_il_ions,         \* args.n_il_ions: [is_dict, items: <<[ion, n], ...>>]
    args_n_waters,          \* args.n_waters
    args_il_solv_height,    \* args.il_solv_height
    args_z_padding,         \* args.z_padding
    args_bulk_solv,         \* args.bulk_solv
    args_bulk_ion_conc,     \* args.bulk_ion_conc (0: 0.0)
    \* ---- run() and Builder ----
    run_pc,                 \* position in run()
    run_err,                \* exception that ended run() ("none": none)
    calls,                  \* Builder stages called by run(), in order
    il_solv,                \* Builder.il_solv handle is set
    extended_box,           \* Builder.__box_ext
    \* ---- Builder.add_il_ions ----
    ion_idx,                \* position in args.n_il_ions.items()
    insert_log,             \* insertion service calls: [ion, n, placed]
    \* ---- Builder.construct_solvent called on the same flags ----
    cs_state,               \* [called, rename_given, calls]
    \* ---- run(): bulk loop ----
    completed,              \* `completed`: "False", "None" or the message
    repeat,                 \* `repeat`: "None" or the answer read
    last_em,                \* outcome of the most recent relaxation
    iterations,             \* loop bodies started (saturating)
    yes_count,              \* "y" answers acted on (saturating)
    bulk_calls,             \* Builder stages called in the current iteration
    concluded               \* Builder.conclude was called

solvVars == <<solv_pc, x_dim, y_dim, z_dim_, z_padding, z_padding_increment,
              n_mols, min_height, solv, prev_solv, universe_set, writes,
              attempts, underfills, boxes, base0, pad0>>

argVars == <<args_il_solv, args_tot, args_n_il_ions, args_n_waters,
             args_il_solv_height, args_z_padding, args_bulk_solv,
             args_bulk_ion_conc>>

ilVars == <<ion_idx, insert_log>>

runVars == <<run_pc, run_err, calls, il_solv, extended_box>>

bulkVars == <<completed, repeat, last_em, iterations, yes_count, bulk_calls,
              concluded>>

\* ---- Builder methods acting on the structure files ----
VARIABLES
    st_pc,                  \* [m, s]: Builder method being executed and position in it
    files,                  \* structure held by every file path (NoFile: no file)
    stack,                  \* path named by the Builder.stack handle (NoPath: not set)
    stack_u,                \* structure cached by the stack handle (NoFile: not loaded)
    box_height,             \* args.box_height: [type, value]
    entry,                  \* [stack, content, h, extended] when the method was entered
    st_count                \* [extends, rounds]: extend_box calls, bulk rounds started

stageVars == <<st_pc, files, stack, stack_u, box_height, entry, st_count>>

\* ---- Builder.get_filename called twice ----
VARIABLES
    gf_args,                \* <<modifiers of the first call, of the second call>>
    gf_kw,                  \* [suffix, sheetnum, tcb_spec] given to both calls
    gf_ret                  \* <<result of the first call, of the second call>>

nameVars == <<gf_args, gf_kw, gf_ret>>

\* ---- Sheet objects and the seeded generator ----
VARIABLES
    sh_spec,                \* [x_cells, y_cells, uc_numbers, n_atoms] of the sheets
    sheets,                 \* per Sheet object: [n_sheet, seed, draws, assigned, raised]
    rng,                    \* shuffles produced so far, by <<seed, draw number>>
    gro_log                 \* write_gro calls made, in order

sheetVars == <<sh_spec, sheets, rng, gro_log>>

\* ---- Builder.stack_sheets, slab by slab ----
VARIABLES
    sk_pc,                  \* "none", "begin", "loop", "combine", "done"
    sk_in,                  \* [n_sheets, sheet, il, extra, beta]: the call's inputs
    il_solv_found,          \* `il_solv` of stack_sheets
    sheet_universes,        \* per slab appended: [z |-> translation, top |-> height]
    sheet_heights,          \* `sheet_heights`
    combined_dims           \* [h, angles] of `combined.dimensions`

stackVars == <<sk_pc, sk_in, il_solv_found, sheet_universes, sheet_heights,
               combined_dims>>

\* ---- the scratch workspace of the Builder class ----
VARIABLES
    tmp_outpath,            \* Builder.__tmp_outpath: "none", "exists", "released"
    builders,               \* per Builder: [state, has_stack, raised]
    named                   \* get_filename calls: [by, target] in order

workspaceVars == <<tmp_outpath, builders, named>>

\* ---- Builder.add_bulk_ions, the ion counts ----
VARIABLES
    ib_pc,                  \* "none", "conc", "excess", "neutral", "done", "fatal"
    ib_in,                  \* [clay_charge, ion_df, bulk_ions]: the call's inputs
    ib_ion_charge,          \* `ion_charge`
    excess_charge,          \* `excess_charge`, None before it is computed
    neutral_bulk_ions,      \* rows of `neutral_bulk_ions.df` not yet inserted
    ib_added                \* add_ions_n_mols calls: [charge, n_atoms] in order

bulkIonVars == <<ib_pc, ib_in, ib_ion_charge, excess_charge, neutral_bulk_ions,
                 ib_added>>

\* ---- Builder.select_molecules_outside_clay ----
VARIABLES
    sm_pc,                  \* "none", "begin", "loop", "done"
    sm_in,                  \* [z, atomgroup, extra]: the universe and the arguments
    selected,               \* what select_outside_clay_stack returned
    atom_group,             \* `atom_group`
    residue_groups          \* `residue_groups` not yet looked at

selVars == <<sm_pc, sm_in, selected, atom_group, residue_groups>>

\* ---- height and count of a Solvent, there and back ----
VARIABLES
    rt_pc,                  \* "none", "begin", "height", "mols"
    rt_in,                  \* [n, x_dim, y_dim]
    rt_height,              \* get_solvent_sheet_height(n), 1/HeightGrid Angstrom
    rt_mols                 \* get_sheet_solvent_mols of that height

rtVars == <<rt_pc, rt_in, rt_height, rt_mols>>

\* ---- the interlayer ions in stack_sheets ----
VARIABLES
    roll_pc,                \* "none", "loop", "done"
    roll_in,                \* [n_sheets, names]: args.n_sheets, the ions of il_u
    il_u_positions,         \* il_u: the position of each ion, by place number
    il_copies               \* per pass: the ion positions of il_u_copy

rollVars == <<roll_pc, roll_in, il_u_positions, il_copies>>

\* ---- the files of add_il_ions ----
VARIABLES
    ai_pc,                  \* "none", "begin", "loop", "check", "raised", "returned"
    ai_in,                  \* args.n_il_ions
    ai_idx,                 \* position in args.n_il_ions.items()
    ai_files,               \* content of infile, temp_gro and the copy in outpath
    ai_handle,              \* the il_solv handle: [file, id]
    ai_entry,               \* ai_files and ai_handle when add_il_ions was called
    ai_reports              \* what run_gmx_insert_mols reported, in order

aiVars == <<ai_pc, ai_in, ai_idx, ai_files, ai_handle, ai_entry, ai_reports>>

\* ---- the output directory in run_em ----
VARIABLES
    ec_pc,                  \* "none", "begin", "loop", "done"
    ec_name,                \* outpath.name
    ec_listing,             \* what outpath.iterdir() lists
    ec_todo,                \* the entries the loop has not visited yet
    ec_outpath,             \* the entries directly in args.outpath
    ec_em,                  \* the entries in args.outpath / "EM"
    ec_stack                \* the stack handle: [in, file]

ecVars == <<ec_pc, ec_name, ec_listing, ec_todo, ec_outpath, ec_em, ec_stack>>

\* ---- the residue names of interlayer and stack ----
VARIABLES
    rn_pc,                  \* "none", "interlayer", "stacking", "stacked", "stripped"
    rn_in,                  \* [n_sheets, residues]: args.n_sheets, the solvated interlayer
    il_residues,            \* the residues of the il_solv file: [resname, pos]
    rn_renames,             \* rename_il_solv calls made
    il_u_copies,            \* per sheet: the residues of il_u_copy when merged
    stack_residues,         \* the residues of the stack: [resname, pos, sheet]
    stack_before            \* the stack before remove_SOL

rnVars == <<rn_pc, rn_in, il_residues, rn_renames, il_u_copies,
            stack_residues, stack_before>>

\* the variables of the units after add_il_ions
lastVars == <<ecVars, rnVars>>

\* the variables of the units after add_bulk_ions
moreVars == <<selVars, rtVars, rollVars, aiVars, lastVars>>

\* the variables of the units after Sheet
laterVars == <<stackVars, workspaceVars, bulkIonVars, moreVars>>

\* the variables of the units that follow run() and Solvent
otherVars == <<stageVars, nameVars, sheetVars, laterVars>>

vars == <<solvVars, argVars, runVars, ilVars, cs_state, bulkVars, otherVars>>

\* everything but the Solvent object
nonSolvVars == <<argVars, runVars, ilVars, cs_state, bulkVars, otherVars>>

\* ------------------------------------------------------------------------
\* Structure files
\* ------------------------------------------------------------------------
\* directories: the scratch workspace (Builder.__tmp_outpath), args.outpath
\* and args.outpath / "EM"
Dirs == {"tmp", "out", "em"}

\* file stems: a clay sheet, the stack, and the stack with the modifiers
\* ext, solv, solv_ions; the output of the energy minimisation
Stems == {"sheet", "stack", "ext", "solv", "solv_ions", "em"}

Paths == [dir : Dirs, name : Stems]

\* no path: the handle attribute does not exist
NoPath == [dir |-> "none", name |-> "none"]

\* a structure: box height h (tenths of A), SOL residues present, bulk ions
\* present, clay centered in the box; h = None stands for no structure
NoFile == [h |-> None, sol |-> FALSE, ions |-> FALSE, ctr |-> FALSE]

\* no Builder method has run on any file
NoStage ==
    /\ st_pc = [m |-> "none", s |-> "none"]
    /\ files = [p \in Paths |-> NoFile]
    /\ stack = NoPath
    /\ stack_u = NoFile
    /\ box_height = [type |-> "float", value |-> 0]
    /\ entry = [stack |-> NoPath, content |-> NoFile, h |-> None,
                extended |-> FALSE]
    /\ st_count = [extends |-> 0, rounds |-> 0]

\* a get_filename call that was not made
NotCalled == [raised |-> FALSE, dir |-> "none", filestem |-> "none",
              sheetnum |-> None, tcb_spec |-> "none", mods |-> <<>>,
              suffix |-> "none"]

\* get_filename is not being called
NoNames ==
    /\ gf_args = <<<<>>, <<>>>>
    /\ gf_kw = [suffix |-> "None", sheetnum |-> None, tcb_spec |-> "None"]
    /\ gf_ret = <<NotCalled, NotCalled>>

\* no Sheet object is in use
NoSheets ==
    /\ sh_spec = [x_cells |-> 0, y_cells |-> 0, uc_numbers |-> <<>>,
                  n_atoms |-> <<>>]
    /\ sheets = <<>>
    /\ rng = <<>>
    /\ gro_log = <<>>

\* the units that follow run() and Solvent are not in use
NoCombined == [h |-> None, angles |-> <<>>]

\* stack_sheets is not running
NoStack ==
    /\ sk_pc = "none"
    /\ sk_in = [n_sheets |-> 0, sheet |-> 0, il |-> None, extra |-> 0,
                beta |-> 0]
    /\ il_solv_found = FALSE
    /\ sheet_universes = <<>>
    /\ sheet_heights = <<>>
    /\ combined_dims = NoCombined

\* no Builder class
NoWorkspace ==
    /\ tmp_outpath = "none"
    /\ builders = <<>>
    /\ named = <<>>

\* add_bulk_ions is not running
NoBulkIons ==
    /\ ib_pc = "none"
    /\ ib_in = [clay_charge |-> 0, ion_df |-> <<>>, bulk_ions |-> <<>>]
    /\ ib_ion_charge = 0
    /\ excess_charge = None
    /\ neutral_bulk_ions = <<>>
    /\ ib_added = <<>>

\* select_molecules_outside_clay is not running
NoSelection ==
    /\ sm_pc = "none"
    /\ sm_in = [z |-> <<>>, atomgroup |-> {}, extra |-> 0]
    /\ selected = {}
    /\ atom_group = {}
    /\ residue_groups = <<>>

\* no height or count is asked for
NoRoundTrip ==
    /\ rt_pc = "none"
    /\ rt_in = [n |-> 0, x_dim |-> 0, y_dim |-> 0]
    /\ rt_height = None
    /\ rt_mols = None

\* stack_sheets is not looked at
NoRoll ==
    /\ roll_pc = "none"
    /\ roll_in = [n_sheets |-> 0, names |-> <<>>]
    /\ il_u_positions = <<>>
    /\ il_copies = <<>>

\* a structure file that is not there
Absent == [sol |-> None, ions |-> <<>>]

\* add_il_ions is not looked at
NoIlIonFiles ==
    /\ ai_pc = "none"
    /\ ai_in = [is_dict |-> FALSE, items |-> <<>>]
    /\ ai_idx = 0
    /\ ai_files = [infile |-> Absent, temp_gro |-> Absent, outpath |-> Absent]
    /\ ai_handle = [file |-> "none", id |-> 0]
    /\ ai_entry = [files |-> ai_files, handle |-> ai_handle]
    /\ ai_reports = <<>>

\* a directory entry that is not there
NoEntry == [stem |-> <<>>, ext |-> "", is_dir |-> FALSE]

\* run_em is not looked at
NoEmFiles ==
    /\ ec_pc = "none"
    /\ ec_name = "none"
    /\ ec_listing = {}
    /\ ec_todo = {}
    /\ ec_outpath = {}
    /\ ec_em = {}
    /\ ec_stack = [in |-> "none", file |-> NoEntry]

\* no residue name is looked at
NoResnames ==
    /\ rn_pc = "none"
    /\ rn_in = [n_sheets |-> 0, residues |-> <<>>]
    /\ il_residues = <<>>
    /\ rn_renames = 0
    /\ il_u_copies = <<>>
    /\ stack_residues = <<>>
    /\ stack_before = <<>>

NoLast == NoEmFiles /\ NoResnames

NoMore == NoSelection /\ NoRoundTrip /\ NoRoll /\ NoIlIonFiles /\ NoLast

NoLater == NoStack /\ NoWorkspace /\ NoBulkIons /\ NoMore

NoOther == NoStage /\ NoNames /\ NoSheets /\ NoLater

\* ------------------------------------------------------------------------
\* Helpers
\* ------------------------------------------------------------------------
Max(a, b) == IF a >= b THEN a ELSE b

Min(a, b) == IF a <= b THEN a ELSE b

\* Python round(num / den, 0) for num >= 0, den > 0: half to even
RoundHalfEven(num, den) ==
    LET q == num \div den
        r == num % den
    IN  IF 2 * r < den THEN q
        ELSE IF 2 * r > den THEN q + 1
        ELSE IF q % 2 = 0 THEN q ELSE q + 1

\* ------------------------------------------------------------------------
\* Solvent
\* ------------------------------------------------------------------------
\* the height of mols_sol molecules in units of 1/unit Angstrom, cut off
solvent_sheet_height(mols_sol, x, y, unit) ==
    (MolVolume * mols_sol * unit) \div (x * y)

\* Solvent.get_solvent_sheet_height: height (tenths of A) of mols_sol molecules
get_solvent_sheet_height(mols_sol, x, y) ==
    solvent_sheet_height(mols_sol, x, y, 10)

\* faulty variant: the fraction is cut off as by int()
MolsCutOff(z, x, y, unit) == (z * x * y) \div (MolVolume * unit)

\* `round(mols_sol, 0)` for a height z in units of 1/unit Angstrom
sheet_solvent_mols(z, x, y, unit) ==
    RoundHalfEven(z * x * y, MolVolume * unit)

\* Solvent.get_sheet_solvent_mols: molecules in a slab of height z (tenths of A)
get_sheet_solvent_mols(z, x, y) ==
    sheet_solvent_mols(z, x, y, 10)

\* Solvent.z_dim property
z_dim_property(z, padding) == z + padding

\* faulty variant: the comparison off by one
CheckNummolsOffByOne(added_wat, target) == added_wat < target - 1

\* faulty variant: a report without a count passes the check
RaisesOnlyWhenShort(added_wat, target) ==
    added_wat # None /\ added_wat < target

\* Solvent.check_solvent_nummols raises: no count found in the report
\* (re.search gives None, .group raises) or int(added_wat) < self.n_mols
check_solvent_nummols_raises(added_wat, target) ==
    \/ added_wat = None
    \/ added_wat < target

\* faulty variant: the height is used as it is
Unfloored(z, minh) == z

\* `if self._z_dim < self.min_height: self._z_dim = self.min_height`
floored(z, minh) == IF z < minh THEN minh ELSE z

\* the guard at the top of the retry loop
padding_exceeded(padding) == padding > PaddingCeiling

\* faulty variant: the padding is assigned the increment instead of growing by it
NextPaddingAssigned(padding, increment) == increment

\* faulty variant: the increment is taken off the padding
PaddingTakenOff(padding, increment) == padding - increment

\* padding after a failed attempt
next_padding(padding, increment) == padding + increment

\* counts the solvation service may report for a target: none parsable,
\* short by 20, short by one, exact, one more
Reports(target) == {None} \cup ({target - 20, target - 1, target, target + 1} \cap Nat)

\* `if z_dim is None and n_mols is not None`
height_from_mols(z_arg, n_arg) == z_arg = None /\ n_arg # None

\* faulty variant: a given height is taken whether n_mols is given or not
MolsFromAnyHeight(z_arg, n_arg) == z_arg # None

\* `elif n_mols is None and z_dim is not None`
mols_from_height(z_arg, n_arg) == n_arg = None /\ z_arg # None

\* Solvent.__init__
SolventInit(dims, z_arg, n_arg, ions_arg, pad_arg, minh) ==
    /\ x_dim' = dims[1]
    /\ y_dim' = dims[2]
    /\ min_height' = minh
    /\ z_padding' = 0
    /\ z_padding_increment' = pad_arg
    /\ solv' = None
    /\ prev_solv' = None
    /\ universe_set' = FALSE
    /\ writes' = 0
    /\ attempts' = 0
    /\ underfills' = 0
    /\ boxes' = <<>>
    /\ pad0' = 0
    /\ IF height_from_mols(z_arg, n_arg)
       THEN /\ z_dim_' = get_solvent_sheet_height(n_arg, dims[1], dims[2])
            /\ n_mols' = n_arg + (IF ions_arg = None THEN 0 ELSE ions_arg)
            /\ solv_pc' = "ready"
       ELSE IF mols_from_height(z_arg, n_arg)
       THEN /\ z_dim_' = z_arg
            /\ n_mols' = get_sheet_solvent_mols(z_arg, dims[1], dims[2])
                            + (IF ions_arg = None THEN 0 ELSE ions_arg)
            /\ solv_pc' = "ready"
       ELSE /\ z_dim_' = 0
            /\ n_mols' = 0
            /\ solv_pc' = "init_error"
    /\ base0' = z_dim_'

\* state before any Solvent exists
NoSolvent ==
    /\ solv_pc = "none"
    /\ x_dim = 0 /\ y_dim = 0 /\ z_dim_ = 0 /\ z_padding = 0
    /\ z_padding_increment = 0 /\ n_mols = 0 /\ min_height = 0
    /\ solv = None /\ prev_solv = None /\ universe_set = FALSE /\ writes = 0 /\ attempts = 0
    /\ underfills = 0 /\ boxes = <<>> /\ base0 = 0 /\ pad0 = 0

\* Solvent(...) called by client code with any arguments
Construct ==
    /\ solv_pc = "none"
    /\ \E dims \in LateralDims, z \in ZDimArgs, n \in NMolsArgs,
          i \in NIonsArgs, p \in Increments :
          SolventInit(dims, z, n, i, p, DefaultMinHeight)
    /\ UNCHANGED nonSolvVars

\* Solvent.write, entry up to the retry loop
WriteBegin ==
    /\ solv_pc \in {"ready", "returned", "raised"}
    /\ writes < MaxWrites
    /\ writes' = writes + 1
    /\ attempts' = 0
    /\ underfills' = 0
    /\ boxes' = <<>>
    /\ pad0' = z_padding
    /\ solv' = None
    /\ prev_solv' = None
    /\ solv_pc' = "loop"
    /\ UNCHANGED <<x_dim, y_dim, z_dim_, z_padding, z_padding_increment,
                   n_mols, min_height, universe_set, base0>>
    /\ UNCHANGED nonSolvVars

\* top of the loop with the ceiling exceeded: raise Exception
WriteCeiling ==
    /\ solv_pc = "loop"
    /\ padding_exceeded(z_padding)
    /\ solv_pc' = "raised"
    /\ UNCHANGED <<x_dim, y_dim, z_dim_, z_padding, z_padding_increment,
                   n_mols, min_height, solv, prev_solv, universe_set, writes,
                   attempts, underfills, boxes, base0, pad0>>
    /\ UNCHANGED nonSolvVars

\* one solvation attempt: floor the height, call the service, read its report
WriteAttempt ==
    /\ solv_pc = "loop"
    /\ ~padding_exceeded(z_padding)
    /\ z_dim_' = floored(z_dim_, min_height)
    /\ boxes' = IF Len(boxes) < MaxAttempts
                THEN Append(boxes, z_dim_property(z_dim_', z_padding))
                ELSE boxes
    /\ attempts' = Min(attempts + 1, MaxAttempts)
    /\ \E r \in Reports(n_mols) : solv' = r
    /\ prev_solv' = solv
    /\ solv_pc' = "check"
    /\ UNCHANGED <<x_dim, y_dim, z_padding, z_padding_increment, n_mols,
                   min_height, universe_set, writes, underfills, base0, pad0>>
    /\ UNCHANGED nonSolvVars

\* check_solvent_nummols raised: pad the box and retry
WriteRetry ==
    /\ solv_pc = "check"
    /\ check_solvent_nummols_raises(solv, n_mols)
    /\ z_padding' = next_padding(z_padding, z_padding_increment)
    /\ underfills' = Min(underfills + 1, MaxAttempts)
    /\ solv_pc' = "loop"
    /\ UNCHANGED <<x_dim, y_dim, z_dim_, z_padding_increment, n_mols,
                   min_height, solv, prev_solv, universe_set, writes, attempts,
                   boxes, base0, pad0>>
    /\ UNCHANGED nonSolvVars

\* check_solvent_nummols passed: leave the loop, store the structure, return
WriteReturn ==
    /\ solv_pc = "check"
    /\ ~check_solvent_nummols_raises(solv, n_mols)
    /\ universe_set' = TRUE
    /\ solv_pc' = "returned"
    /\ UNCHANGED <<x_dim, y_dim, z_dim_, z_padding, z_padding_increment,
                   n_mols, min_height, solv, prev_solv, writes, attempts,
                   underfills, boxes, base0, pad0>>
    /\ UNCHANGED nonSolvVars

\* the bulk loop has not been entered
NoBulk ==
    /\ completed = "False" /\ repeat = "None" /\ last_em = "none"
    /\ iterations = 0 /\ yes_count = 0 /\ bulk_calls = <<>>
    /\ concluded = FALSE

\* run() is not running and has its default arguments
NoPipeline ==
    /\ NoBulk
    /\ args_il_solv = FALSE /\ args_tot = 0
    /\ args_n_il_ions = [is_dict |-> TRUE, items |-> <<>>]
    /\ args_n_waters = None /\ args_il_solv_height = None
    /\ args_z_padding = DefaultZPadding
    /\ args_bulk_solv = FALSE /\ args_bulk_ion_conc = 0
    /\ run_pc = "idle" /\ run_err = "none" /\ calls = <<>>
    /\ il_solv = FALSE /\ extended_box = FALSE
    /\ ion_idx = 0 /\ insert_log = <<>>
    /\ cs_state = [called |-> FALSE, rename_given |-> FALSE, calls |-> <<>>]

\* no pipeline run in progress: the Solvent is used on its own
NoRun == NoPipeline /\ NoOther

SolvInit == NoSolvent /\ NoRun

SolvNext ==
    \/ Construct
    \/ WriteBegin
    \/ WriteCeiling
    \/ WriteAttempt
    \/ WriteRetry
    \/ WriteReturn

\* Solvent used through its public interface
SolvSpec == SolvInit /\ [][SolvNext]_vars

\* the interpreter always executes the next statement of write()
SolvFairSpec == SolvSpec /\ WF_vars(SolvNext)

\* ------------------------------------------------------------------------
\* Properties of Solvent.write
\* ------------------------------------------------------------------------
\* the report under check is a count below the target
Underfilled == solv # None /\ solv < n_mols

\* C1: under persistent under-fill (every report shows fewer molecules than
\* n_mols), whatever the increment, a write() that entered the retry loop
\* raises the 'Unsuccessful solvation' error after finitely many attempts,
\* at most floor(5 / increment) + 1 of them.
C1_RaisesUnderPersistentUnderfill ==
    ([](solv_pc = "check" => Underfilled))
        => /\ (solv_pc = "loop") ~> (solv_pc = "raised")
           /\ [](z_padding_increment > 0
                   => attempts <= (PaddingCeiling \div z_padding_increment) + 1)

\* C2: whenever write() has returned normally, the count reported by the
\* last solvation attempt is at least n_mols.
C2_ReturnImpliesFilled ==
    solv_pc = "returned" => (solv # None /\ solv >= n_mols)

\* C2 witness: write() returned after at least one under-filled attempt
C2_Witness ==
    /\ solv_pc = "returned"
    /\ underfills >= 1
    /\ prev_solv # None /\ prev_solv < n_mols
    /\ solv >= n_mols

\* the height floor applied to the constructed height
BaseHeight == Max(base0, min_height)

\* C3 as stated: when write() returns after k under-filled attempts it made
\* exactly k + 1 service calls, attempt j used box height
\* base + (j - 1) * increment, and z_dim is base + k * increment.
C3_HeightsFromBase ==
    (solv_pc = "returned" /\ attempts < MaxAttempts) =>
        /\ attempts = underfills + 1
        /\ Len(boxes) = attempts
        /\ \A j \in 1..Len(boxes) :
              boxes[j] = BaseHeight + (j - 1) * z_padding_increment
        /\ z_dim_property(z_dim_, z_padding)
              = BaseHeight + underfills * z_padding_increment

\* C3 amended: the same with the padding accumulated by earlier write()
\* calls on the same Solvent (zero for the first write) added to every height.
C3_HeightsFromBaseAndCarriedPadding ==
    (solv_pc = "returned" /\ attempts < MaxAttempts) =>
        /\ attempts = underfills + 1
        /\ Len(boxes) = attempts
        /\ \A j \in 1..Len(boxes) :
              boxes[j] = BaseHeight + pad0 + (j - 1) * z_padding_increment
        /\ z_dim_property(z_dim_, z_padding)
              = BaseHeight + pad0 + underfills * z_padding_increment

\* C3 witness: target 500, first report 480, second report >= 500: one
\* retry, issued at the increased height
C3_Witness ==
    /\ solv_pc = "returned"
    /\ writes = 1
    /\ n_mols = 500
    /\ prev_solv = 480
    /\ solv >= 500
    /\ attempts = 2
    /\ z_padding_increment > 0
    /\ boxes = <<BaseHeight, BaseHeight + z_padding_increment>>
    /\ z_dim_property(z_dim_, z_padding) = boxes[2]

\* ------------------------------------------------------------------------
\* run(): interlayer stages, stacking, box extension (__main__.py 20-33)
\* ------------------------------------------------------------------------
\* (n_waters, il_solv_height) pairs found in args
SolventArgPairs == {<<3, None>>, <<None, 30>>, <<3, 30>>, <<None, None>>}
\* args.z_padding values (0.4 A, 2.5 A)
ZPaddingArgs == {DefaultZPadding, 25}
\* args.match_charge["tot"] values
ChargeArgs == {0 - 2, 0, 2}
\* args.n_il_ions values: dictionaries in insertion order, or no dictionary
IonDicts ==
    { [is_dict |-> FALSE, items |-> <<>>],
      [is_dict |-> TRUE, items |-> <<[ion |-> "Na", n |-> 2]>>],
      [is_dict |-> TRUE,
       items |-> <<[ion |-> "Ca", n |-> 0], [ion |-> "Na", n |-> 2],
                   [ion |-> "K", n |-> 1]>>] }
\* sheet dimensions passed to the interlayer Solvent
SheetDims == <<10, 10>>

\* positional arguments run() passes to Builder.extend_box
RunExtendBoxArgs == 0
\* parameters of Builder.extend_box without a default (backup)
ExtendBoxRequiredArgs == 1

\* Python call binding: every parameter without default needs an argument
CallBinds(given, required) == given >= required

\* `if args.il_solv is False and args.match_charge["tot"] == 0: pass`
run_skips_interlayer(solvate, tot) == solvate = FALSE /\ tot = 0

\* `elif args.il_solv is True or args.match_charge["tot"] != 0:`
run_solvates(solvate, tot) ==
    ~run_skips_interlayer(solvate, tot) /\ (solvate = TRUE \/ tot # 0)

\* `if args.match_charge["tot"] != 0:`
run_adds_ions(tot) == tot # 0

\* faulty variant: the remove and rename branches swapped
RunRemovesSwapped(solvate) == solvate = TRUE

\* `if args.il_solv is False: remove_il_solv() else: rename_il_solv()`
run_removes_il_solv(solvate) == solvate = FALSE

\* Builder.construct_solvent: the callbacks it calls, in order, named by the
\* Builder stage run() uses in that role
construct_solvent(solvate, ion_charge, rename_given) ==
    IF ~solvate /\ ion_charge = 0
    THEN <<>>
    ELSE IF solvate \/ ion_charge # 0
    THEN <<"solvate_clay_sheets">> \o
         (IF ion_charge # 0
          THEN <<"add_il_ions">> \o
               (IF ~solvate THEN <<"remove_il_solv">>
                ELSE IF rename_given THEN <<"rename_il_solv">>
                ELSE <<>>)
          ELSE <<>>)
    ELSE <<>>

\* check_insert_numbers(add_repl="Added", searchstr=insert_err): the count
\* the insertion report states as added
check_insert_numbers(placed) == placed

\* faulty variant: only a shortfall is treated as a mismatch
InsertMismatchOnlyShort(replace_check, n_ions) == replace_check < n_ions

\* `if replace_check != n_ions: raise ValueError`
insert_count_mismatch(replace_check, n_ions) == replace_check # n_ions

\* counts the insertion service may report as placed for a request of n
InsertReports(n) == {n - 1, n, n + 1}

RunFail(err) ==
    /\ run_err' = err
    /\ run_pc' = "error"

\* line 21
RunWriteSheetCrds ==
    /\ run_pc = "write_sheet_crds"
    /\ calls' = Append(calls, "write_sheet_crds")
    /\ run_pc' = "line22"
    /\ UNCHANGED <<otherVars, solvVars, argVars, ilVars, cs_state, bulkVars, run_err, il_solv,
                   extended_box>>

\* lines 22-24, neither branch calls solvate_clay_sheets
RunSkipSolvate ==
    /\ run_pc = "line22"
    /\ ~run_solvates(args_il_solv, args_tot)
    /\ run_pc' = "line26"
    /\ UNCHANGED <<otherVars, solvVars, argVars, ilVars, cs_state, bulkVars, run_err, calls,
                   il_solv, extended_box>>

\* line 25 and Builder.solvate_clay_sheets up to Solvent(...)
RunSolvateClaySheets ==
    /\ run_pc = "line22"
    /\ run_solvates(args_il_solv, args_tot)
    /\ calls' = Append(calls, "solvate_clay_sheets")
    /\ SolventInit(SheetDims, args_il_solv_height, args_n_waters, None,
                   args_z_padding, DefaultMinHeight)
    /\ run_pc' = "solvate_clay_sheets"
    /\ UNCHANGED <<otherVars, argVars, ilVars, cs_state, bulkVars, run_err,
                   il_solv,
                   extended_box>>

\* Solvent(...) raised ValueError inside solvate_clay_sheets
SheetsInitError ==
    /\ run_pc = "solvate_clay_sheets"
    /\ solv_pc = "init_error"
    /\ RunFail("ValueError")
    /\ UNCHANGED <<otherVars, solvVars, argVars, ilVars, cs_state, bulkVars, calls, il_solv,
                   extended_box>>

\* solvent.write(spc_name=spc_file, topology=self.top)
SheetsWriteBegin ==
    /\ run_pc = "solvate_clay_sheets"
    /\ solv_pc = "ready"
    /\ WriteBegin

\* write() raised: the exception leaves solvate_clay_sheets and run()
SheetsWriteRaised ==
    /\ run_pc = "solvate_clay_sheets"
    /\ solv_pc = "raised"
    /\ RunFail("Exception")
    /\ UNCHANGED <<otherVars, solvVars, argVars, ilVars, cs_state, bulkVars, calls, il_solv,
                   extended_box>>

\* write() returned: self.il_solv = spc_file
SheetsReturn ==
    /\ run_pc = "solvate_clay_sheets"
    /\ solv_pc = "returned"
    /\ il_solv' = TRUE
    /\ run_pc' = "line26"
    /\ UNCHANGED <<otherVars, solvVars, argVars, ilVars, cs_state, bulkVars, run_err, calls,
                   extended_box>>

\* line 26, no ions to add
RunSkipIons ==
    /\ run_pc = "line26"
    /\ ~run_adds_ions(args_tot)
    /\ run_pc' = "stack_sheets"
    /\ UNCHANGED <<otherVars, solvVars, argVars, ilVars, cs_state, bulkVars, run_err, calls,
                   il_solv, extended_box>>

\* line 27 and Builder.add_il_ions up to the loop over args.n_il_ions
RunAddIlIons ==
    /\ run_pc = "line26"
    /\ run_adds_ions(args_tot)
    /\ calls' = Append(calls, "add_il_ions")
    /\ ion_idx' = 1
    /\ insert_log' = <<>>
    /\ run_pc' = "add_il_ions"
    /\ UNCHANGED <<otherVars, solvVars, argVars, cs_state, bulkVars, run_err, il_solv,
                   extended_box>>

IonItems == args_n_il_ions.items

\* the loop over the ion species is not exhausted
IonsLeft == args_n_il_ions.is_dict /\ ion_idx <= Len(IonItems)

\* `if n_ions != 0` is false: next species
IlIonsSkipZero ==
    /\ run_pc = "add_il_ions"
    /\ IonsLeft
    /\ IonItems[ion_idx].n = 0
    /\ ion_idx' = ion_idx + 1
    /\ UNCHANGED <<otherVars, solvVars, argVars, runVars, cs_state, bulkVars, insert_log>>

\* run_gmx_insert_mols for one species, returning its report
IlIonsInsert ==
    /\ run_pc = "add_il_ions"
    /\ IonsLeft
    /\ IonItems[ion_idx].n # 0
    /\ \E placed \in InsertReports(IonItems[ion_idx].n) :
          insert_log' = Append(insert_log,
                               [ion |-> IonItems[ion_idx].ion,
                                n |-> IonItems[ion_idx].n,
                                placed |-> placed])
    /\ run_pc' = "add_il_ions_check"
    /\ UNCHANGED <<otherVars, solvVars, argVars, cs_state, bulkVars, run_err, calls, il_solv,
                   extended_box, ion_idx>>

LastInsert == insert_log[Len(insert_log)]

\* replace_check != n_ions: raise ValueError
IlIonsCheckFail ==
    /\ run_pc = "add_il_ions_check"
    /\ insert_count_mismatch(check_insert_numbers(LastInsert.placed),
                             LastInsert.n)
    /\ RunFail("ValueError")
    /\ UNCHANGED <<otherVars, solvVars, argVars, ilVars, cs_state, bulkVars, calls, il_solv,
                   extended_box>>

\* replace_check == n_ions: next species
IlIonsCheckOk ==
    /\ run_pc = "add_il_ions_check"
    /\ ~insert_count_mismatch(check_insert_numbers(LastInsert.placed),
                              LastInsert.n)
    /\ ion_idx' = ion_idx + 1
    /\ run_pc' = "add_il_ions"
    /\ UNCHANGED <<otherVars, solvVars, argVars, cs_state, bulkVars, run_err, calls, il_solv,
                   extended_box, insert_log>>

\* loop done (or n_il_ions is no dict): write back, self.il_solv = infile
IlIonsReturn ==
    /\ run_pc = "add_il_ions"
    /\ ~IonsLeft
    /\ il_solv' = TRUE
    /\ run_pc' = "line28"
    /\ UNCHANGED <<otherVars, solvVars, argVars, ilVars, cs_state, bulkVars, run_err, calls,
                   extended_box>>

\* line 29
RunRemoveIlSolv ==
    /\ run_pc = "line28"
    /\ run_removes_il_solv(args_il_solv)
    /\ calls' = Append(calls, "remove_il_solv")
    /\ run_pc' = "stack_sheets"
    /\ UNCHANGED <<otherVars, solvVars, argVars, ilVars, cs_state, bulkVars, run_err, il_solv,
                   extended_box>>

\* line 31
RunRenameIlSolv ==
    /\ run_pc = "line28"
    /\ ~run_removes_il_solv(args_il_solv)
    /\ calls' = Append(calls, "rename_il_solv")
    /\ run_pc' = "stack_sheets"
    /\ UNCHANGED <<otherVars, solvVars, argVars, ilVars, cs_state, bulkVars, run_err, il_solv,
                   extended_box>>

\* line 32
RunStackSheets ==
    /\ run_pc = "stack_sheets"
    /\ calls' = Append(calls, "stack_sheets")
    /\ run_pc' = "extend_box"
    /\ UNCHANGED <<otherVars, solvVars, argVars, ilVars, cs_state, bulkVars, run_err, il_solv,
                   extended_box>>

\* line 33: clay_builder.extend_box() against extend_box(self, backup)
RunExtendBox ==
    /\ run_pc = "extend_box"
    /\ calls' = Append(calls, "extend_box")
    /\ IF CallBinds(RunExtendBoxArgs, ExtendBoxRequiredArgs)
       THEN /\ \E ext \in BOOLEAN : extended_box' = ext
            /\ run_pc' = "line34"
            /\ run_err' = run_err
       ELSE /\ RunFail("TypeError")
            /\ extended_box' = extended_box
    /\ UNCHANGED <<otherVars, solvVars, argVars, ilVars, cs_state, bulkVars, il_solv>>

\* Builder.construct_solvent called with the flags of args and stage
\* callbacks, with or without a rename callback
CallConstructSolvent ==
    /\ run_pc = "write_sheet_crds"
    /\ ~cs_state.called
    /\ \E rename_given \in BOOLEAN :
          cs_state' = [called |-> TRUE, rename_given |-> rename_given,
                       calls |-> construct_solvent(args_il_solv, args_tot,
                                                   rename_given)]
    /\ UNCHANGED <<otherVars, solvVars, argVars, runVars, ilVars, bulkVars>>

\* state after Builder(args)
RunInit ==
    /\ args_il_solv \in BOOLEAN
    /\ args_tot \in ChargeArgs
    /\ args_n_il_ions \in IonDicts
    /\ \E pair \in SolventArgPairs :
          args_n_waters = pair[1] /\ args_il_solv_height = pair[2]
    /\ args_z_padding \in ZPaddingArgs
    /\ args_bulk_solv \in BOOLEAN
    /\ args_bulk_ion_conc \in {0, 1}
    /\ run_pc = "write_sheet_crds" /\ run_err = "none" /\ calls = <<>>
    /\ il_solv = FALSE /\ extended_box = FALSE
    /\ ion_idx = 0 /\ insert_log = <<>>
    /\ cs_state = [called |-> FALSE, rename_given |-> FALSE, calls |-> <<>>]
    /\ NoBulk
    /\ NoOther

Init == NoSolvent /\ RunInit

Next ==
    \/ CallConstructSolvent
    \/ RunWriteSheetCrds
    \/ RunSkipSolvate
    \/ RunSolvateClaySheets
    \/ SheetsInitError
    \/ SheetsWriteBegin
    \/ WriteCeiling
    \/ WriteAttempt
    \/ WriteRetry
    \/ WriteReturn
    \/ SheetsWriteRaised
    \/ SheetsReturn
    \/ RunSkipIons
    \/ RunAddIlIons
    \/ IlIonsSkipZero
    \/ IlIonsInsert
    \/ IlIonsCheckFail
    \/ IlIonsCheckOk
    \/ IlIonsReturn
    \/ RunRemoveIlSolv
    \/ RunRenameIlSolv
    \/ RunStackSheets
    \/ RunExtendBox

\* run() as written, from Builder(args) on
Spec == Init /\ [][Next]_vars

\* ------------------------------------------------------------------------
\* Properties of the interlayer stages
\* ------------------------------------------------------------------------
IsPrefix(a, b) == Len(a) <= Len(b) /\ SubSeq(b, 1, Len(a)) = a

Range(f) == {f[i] : i \in DOMAIN f}

InterlayerStages ==
    {"solvate_clay_sheets", "add_il_ions", "remove_il_solv", "rename_il_solv"}

IsInterlayerStage(c) == c \in InterlayerStages

\* the interlayer stages run() has called so far, in order
InterlayerCalls == SelectSeq(calls, IsInterlayerStage)

\* the documented branch policy: nothing without solvation and charge;
\* otherwise solvation first, then for a nonzero charge the ions followed by
\* removal (no solvation requested) or renaming (solvation requested)
PolicyCalls(solvate, tot) ==
    IF ~solvate /\ tot = 0 THEN <<>>
    ELSE IF tot = 0 THEN <<"solvate_clay_sheets">>
    ELSE IF solvate
         THEN <<"solvate_clay_sheets", "add_il_ions", "rename_il_solv">>
         ELSE <<"solvate_clay_sheets", "add_il_ions", "remove_il_solv">>

\* run() is past its interlayer section
InterlayerDone == run_pc = "stack_sheets" \/ "stack_sheets" \in Range(calls)

\* what run() does, for C4: the calls follow the policy at every moment and
\* are the whole policy once the interlayer section is passed
RunFollowsPolicy ==
    /\ IsPrefix(InterlayerCalls, PolicyCalls(args_il_solv, args_tot))
    /\ InterlayerDone => InterlayerCalls = PolicyCalls(args_il_solv, args_tot)

\* C4 as stated: run() follows the interlayer branch policy for every
\* (solvate flag, charge), and construct_solvent makes the same calls in the
\* same order.
C4_BranchPolicy ==
    /\ RunFollowsPolicy
    /\ cs_state.called
          => cs_state.calls = PolicyCalls(args_il_solv, args_tot)

DropRename(c) == c # "rename_il_solv"

\* C4 amended: run() follows the policy; construct_solvent makes the same
\* calls when it is given a rename callback, and the same calls without the
\* rename when solvent_rename_func is left at its default None.
C4_BranchPolicyRenameOptional ==
    /\ RunFollowsPolicy
    /\ cs_state.called =>
          cs_state.calls =
             IF cs_state.rename_given
             THEN PolicyCalls(args_il_solv, args_tot)
             ELSE SelectSeq(PolicyCalls(args_il_solv, args_tot), DropRename)

\* C4 witness: solvation requested and charge nonzero: run() solvated,
\* added ions and renamed, and construct_solvent (with a rename callback)
\* made the same calls
C4_Witness ==
    /\ run_pc = "stack_sheets"
    /\ args_il_solv /\ args_tot # 0
    /\ InterlayerCalls
          = <<"solvate_clay_sheets", "add_il_ions", "rename_il_solv">>
    /\ cs_state.called /\ cs_state.rename_given
    /\ cs_state.calls = InterlayerCalls

\* C5: in add_il_ions, a placed count that differs from the requested count
\* (smaller or larger) raises ValueError at once: no insertion follows a
\* mismatching one and the method does not return.
C5_MismatchRaisesAtOnce ==
    /\ \A i \in 1..(Len(insert_log) - 1) :
          insert_log[i].placed = insert_log[i].n
    /\ (Len(insert_log) > 0 /\ LastInsert.placed # LastInsert.n)
          => /\ run_pc \in {"add_il_ions_check", "error"}
             /\ run_pc = "error" => run_err = "ValueError"

\* C5 witness: the first inserted species came back with one ion too many,
\* add_il_ions raised and the remaining species was not inserted
C5_Witness ==
    /\ run_pc = "error" /\ run_err = "ValueError"
    /\ Len(insert_log) = 1
    /\ LastInsert.placed > LastInsert.n
    /\ ion_idx < Len(IonItems)

\* every external service call so far did what was asked
ServicesSucceeded ==
    /\ underfills = 0
    /\ ~(solv_pc = "check" /\ check_solvent_nummols_raises(solv, n_mols))
    /\ \A i \in 1..Len(insert_log) : insert_log[i].placed = insert_log[i].n

\* args gives the interlayer Solvent exactly one of height and count
ArgsValid == (args_n_waters = None) # (args_il_solv_height = None)

\* C10: with every service succeeding, run() calls the stages in the
\* documented order and no stage call fails, extend_box included.
C10_StagesCompleteInOrder ==
    (ServicesSucceeded /\ ArgsValid)
        => /\ run_pc # "error"
           /\ IsPrefix(calls,
                       <<"write_sheet_crds">>
                          \o PolicyCalls(args_il_solv, args_tot)
                          \o <<"stack_sheets", "extend_box">>)

\* ------------------------------------------------------------------------
\* run(): bulk loop and conclusion (__main__.py 34-54)
\* ------------------------------------------------------------------------
\* what the relaxation service reports
RelaxOutcomes == {"converged", "not_converged", "fatal"}

\* ClayCode.core.lib.run_em: a message when the relaxation converged, None
\* when it did not, an exception on a fatal failure
lib_run_em(outcome) ==
    CASE outcome = "converged" -> [raised |-> FALSE, value |-> "message"]
      [] outcome = "not_converged" -> [raised |-> FALSE, value |-> "None"]
      [] outcome = "fatal" -> [raised |-> TRUE, value |-> "None"]

\* Builder.run_em: `result = run_em(...)` ... `return result`
Builder_run_em(result) == result

\* faulty variant: the driver catches the exception and goes on
ExceptionSwallowed(raised) == FALSE

\* `completed = clay_builder.run_em()` stands in no try block: an exception
\* raised by run_em ends run()
exception_propagates(raised) == raised

\* faulty variant: every result but a message repeats the loop
LoopContinuesUnlessMessage(c) == c # "message"

\* `while completed is False:`
loop_continues(c) == c = "False"

\* faulty variant: the extended-box test is dropped
AsksRepeatAlways(c, extended) == c = "None"

\* `if completed is None:` `if clay_builder.extended_box is True:`
asks_repeat(c, extended) == c = "None" /\ extended = TRUE

\* `while repeat not in ["y", "n"]:`
answer_pending(r) == r \notin {"y", "n"}

\* `if repeat == "y":`
repeat_requested(r) == r = "y"

\* answers typed at the prompt
Answers == {"y", "n", "x"}

Bump(n) == Min(n + 1, MaxIterations)

\* line 34
BulkEnter ==
    /\ run_pc = "line34"
    /\ completed' = "False"
    /\ run_pc' = "line35"
    /\ UNCHANGED <<otherVars, solvVars, argVars, ilVars, cs_state, run_err, calls,
                   il_solv, extended_box, repeat, last_em, iterations,
                   yes_count, bulk_calls, concluded>>

\* line 35: the loop test
BulkLoopTest ==
    /\ run_pc = "line35"
    /\ IF loop_continues(completed)
       THEN /\ run_pc' = "line36"
            /\ iterations' = Bump(iterations)
            /\ bulk_calls' = <<>>
       ELSE /\ run_pc' = "line54"
            /\ UNCHANGED <<iterations, bulk_calls>>
    /\ UNCHANGED <<otherVars, solvVars, argVars, ilVars, cs_state, run_err, calls,
                   il_solv, extended_box, completed, repeat, last_em,
                   yes_count, concluded>>

\* lines 36-37
BulkSolvateBox ==
    /\ run_pc = "line36"
    /\ bulk_calls' = IF args_bulk_solv = TRUE
                     THEN Append(bulk_calls, "solvate_box")
                     ELSE bulk_calls
    /\ run_pc' = "line38"
    /\ UNCHANGED <<otherVars, solvVars, argVars, ilVars, cs_state, run_err, calls,
                   il_solv, extended_box, completed, repeat, last_em,
                   iterations, yes_count, concluded>>

\* lines 38-39
BulkAddIons ==
    /\ run_pc = "line38"
    /\ bulk_calls' = IF ~(args_bulk_ion_conc = 0)
                     THEN Append(bulk_calls, "add_bulk_ions")
                     ELSE bulk_calls
    /\ run_pc' = "line40"
    /\ UNCHANGED <<otherVars, solvVars, argVars, ilVars, cs_state, run_err, calls,
                   il_solv, extended_box, completed, repeat, last_em,
                   iterations, yes_count, concluded>>

\* line 40
BulkCenter ==
    /\ run_pc = "line40"
    /\ bulk_calls' = Append(bulk_calls, "center_clay_in_box")
    /\ run_pc' = "line41"
    /\ UNCHANGED <<otherVars, solvVars, argVars, ilVars, cs_state, run_err, calls,
                   il_solv, extended_box, completed, repeat, last_em,
                   iterations, yes_count, concluded>>

\* line 41: completed = clay_builder.run_em()
BulkRunEm ==
    /\ run_pc = "line41"
    /\ bulk_calls' = Append(bulk_calls, "run_em")
    /\ \E outcome \in RelaxOutcomes :
          LET result == Builder_run_em(lib_run_em(outcome))
          IN  /\ last_em' = outcome
              /\ IF exception_propagates(result.raised)
                 THEN /\ RunFail("RelaxationError")
                      /\ completed' = completed
                 ELSE /\ completed' = result.value
                      /\ run_pc' = "line42"
                      /\ run_err' = run_err
    /\ UNCHANGED <<otherVars, solvVars, argVars, ilVars, cs_state, calls, il_solv,
                   extended_box, repeat, iterations, yes_count, concluded>>

\* lines 42-44 and 50-53
BulkAfterEm ==
    /\ run_pc = "line42"
    /\ IF asks_repeat(completed, extended_box)
       THEN /\ repeat' = "None"
            /\ run_pc' = "line45"
       ELSE /\ repeat' = repeat
            /\ run_pc' = "line35"
    /\ UNCHANGED <<otherVars, solvVars, argVars, ilVars, cs_state, run_err, calls,
                   il_solv, extended_box, completed, last_em, iterations,
                   yes_count, bulk_calls, concluded>>

\* lines 45-46: read an answer
BulkAsk ==
    /\ run_pc = "line45"
    /\ answer_pending(repeat)
    /\ \E ans \in Answers : repeat' = ans
    /\ UNCHANGED <<otherVars, solvVars, argVars, ilVars, cs_state, runVars, completed,
                   last_em, iterations, yes_count, bulk_calls, concluded>>

\* lines 47-49
BulkAnswered ==
    /\ run_pc = "line45"
    /\ ~answer_pending(repeat)
    /\ IF repeat_requested(repeat)
       THEN /\ completed' = "False"
            /\ yes_count' = Bump(yes_count)
       ELSE UNCHANGED <<completed, yes_count>>
    /\ run_pc' = "line35"
    /\ UNCHANGED <<otherVars, solvVars, argVars, ilVars, cs_state, run_err, calls,
                   il_solv, extended_box, repeat, last_em, iterations,
                   bulk_calls, concluded>>

\* line 54
BulkConclude ==
    /\ run_pc = "line54"
    /\ concluded' = TRUE
    /\ run_pc' = "done"
    /\ UNCHANGED <<otherVars, solvVars, argVars, ilVars, cs_state, run_err, calls,
                   il_solv, extended_box, completed, repeat, last_em,
                   iterations, yes_count, bulk_calls>>

\* run() at line 34, as left by a Builder.extend_box call that returned
BulkInit ==
    /\ NoSolvent
    /\ args_il_solv \in BOOLEAN
    /\ args_tot = 0
    /\ args_n_il_ions = [is_dict |-> TRUE, items |-> <<>>]
    /\ args_n_waters = None /\ args_il_solv_height = 30
    /\ args_z_padding = DefaultZPadding
    /\ args_bulk_solv \in BOOLEAN
    /\ args_bulk_ion_conc \in {0, 1}
    /\ run_pc = "line34" /\ run_err = "none"
    /\ calls = <<"write_sheet_crds">>
                  \o PolicyCalls(args_il_solv, args_tot)
                  \o <<"stack_sheets", "extend_box">>
    /\ il_solv = args_il_solv
    /\ extended_box \in BOOLEAN
    /\ ion_idx = 0 /\ insert_log = <<>>
    /\ cs_state = [called |-> FALSE, rename_given |-> FALSE, calls |-> <<>>]
    /\ NoBulk
    /\ NoOther

BulkNext ==
    \/ BulkEnter
    \/ BulkLoopTest
    \/ BulkSolvateBox
    \/ BulkAddIons
    \/ BulkCenter
    \/ BulkRunEm
    \/ BulkAfterEm
    \/ BulkAsk
    \/ BulkAnswered
    \/ BulkConclude

\* the bulk loop of run()
BulkSpec == BulkInit /\ [][BulkNext]_vars

C7_RetryOnlyExtendedAndYes ==
    [][(run_pc = "line35" /\ run_pc' = "line36" /\ last_em = "not_converged")
          => (extended_box /\ repeat = "y")]_vars

\* C7 witness: a second iteration running after a not-converged result, on
\* an extended box, with the answer yes
C7_Witness ==
    /\ run_pc = "line36"
    /\ iterations = 2
    /\ last_em = "not_converged"
    /\ extended_box /\ repeat = "y"

MaxExtends == 2
\* rounds of the bulk methods made on one Builder
MaxRounds == 2

\* bounding-box heights of a written clay sheet, tenths of A
SheetHeights == {7, 10}
\* box heights of the stacked sheets, tenths of A
StackHeights == {60, 70}
\* args.box_height: numbers as read from the build parameters, and a
\* boolean (True compares as 1 A)
BoxHeightArgs ==
    { [type |-> "float", value |-> 55], [type |-> "int", value |-> 60],
      [type |-> "float", value |-> 80], [type |-> "bool", value |-> 10] }

\* the variables a Builder method leaves alone, extended_box apart
nonStageVars == <<solvVars, argVars, ilVars, cs_state, bulkVars, run_pc,
                  run_err, calls, il_solv, nameVars, sheetVars, laterVars>>

\* Builder.get_filename: the path is in the scratch workspace
tmp_file(stem) == [dir |-> "tmp", name |-> stem]

\* Sheet.get_filename: the path is in self.outpath (args.outpath)
sheet_file == [dir |-> "out", name |-> "sheet"]

\* `self.args.outpath / path.name`
outpath_file(path) == [dir |-> "out", name |-> path.name]

\* the handle's universe: loaded from its file unless already in memory
universe_of(cached, on_disk) == IF cached = NoFile THEN on_disk ELSE cached

\* faulty variant: the file of the new handle is copied at every assignment
CopyNewFile(fs, current, file) ==
    [fs EXCEPT ![outpath_file(file)] = fs[file]]

\* Builder.__path_setter_copy, the files after it: the current handle's
\* file (the new one when there is no current handle) is copied to outpath
path_setter_copy(fs, current, file) ==
    LET path == IF current = NoPath THEN file ELSE current
    IN  [fs EXCEPT ![outpath_file(path)] = fs[path]]

\* `type(self.args.box_height) in [int, float]`
is_int_or_float(t) == t \in {"int", "float"}

\* faulty variant: an equal height counts as exceeding
ExceedsOrEqual(requested, current) == requested >= current

\* `self.args.box_height > self.stack.universe.dimensions[2]`
exceeds(requested, current) == requested > current

\* `box_u.select_atoms("not resname SOL")`
not_resname_SOL(u) == [u EXCEPT !.sol = FALSE]

\* center_clay(crdin, crdout): the clay is moved to the middle of the box
center_clay(u) == [u EXCEPT !.ctr = TRUE]

\* `box_u.universe.dimensions[2] = self.args.box_height`: the atoms stay,
\* so the clay is in the middle of the new box only if the height is the same
stamp_height(u, h) == [u EXCEPT !.h = h, !.ctr = (u.ctr /\ h = u.h)]

At(m, s) == st_pc = [m |-> m, s |-> s]

Goto(m, s) == st_pc' = [m |-> m, s |-> s]

\* a Builder method is entered: remember the stack handle and its file
Enter(m, s) ==
    /\ Goto(m, s)
    /\ entry' = [stack |-> stack,
                 content |-> IF stack = NoPath THEN NoFile ELSE files[stack],
                 h |-> IF stack = NoPath THEN None
                       ELSE universe_of(stack_u, files[stack]).h,
                 extended |-> extended_box]

\* Builder.write_sheet_crds: Sheet.write_gro writes the sheet file
WriteSheetCrds ==
    /\ At("idle", "constructed")
    /\ \E h \in SheetHeights :
          files' = [files EXCEPT ![sheet_file] =
                       [h |-> h, sol |-> FALSE, ions |-> FALSE, ctr |-> FALSE]]
    /\ Enter("idle", "sheets")
    /\ UNCHANGED <<stack, stack_u, box_height, st_count, extended_box,
                   nonStageVars>>

\* Builder.stack_sheets: the combined universe is written to the file named
\* by get_filename(suffix=".gro") and becomes the stack
StackSheets ==
    /\ At("idle", "sheets")
    /\ \E h \in StackHeights, sol \in BOOLEAN :
          LET crdout == tmp_file("stack")
              combined == [h |-> h, sol |-> sol, ions |-> FALSE, ctr |-> FALSE]
          IN  /\ files' = path_setter_copy([files EXCEPT ![crdout] = combined],
                                           stack, crdout)
              /\ stack' = crdout
    /\ stack_u' = NoFile
    /\ Enter("idle", "stacked")
    /\ UNCHANGED <<box_height, st_count, extended_box, nonStageVars>>

\* extend_box(backup) is called
ExtendBoxCall ==
    /\ At("idle", "stacked") \/ At("idle", "extended")
    /\ st_count.extends < MaxExtends
    /\ st_count' = [st_count EXCEPT !.extends = @ + 1]
    /\ Enter("extend_box", "guard")
    /\ UNCHANGED <<files, stack, stack_u, box_height, extended_box,
                   nonStageVars>>

\* extend_box, lines 295-296 and 319-320
ExtendBoxGuard ==
    /\ At("extend_box", "guard")
    /\ IF is_int_or_float(box_height.type)
       THEN /\ stack_u' = universe_of(stack_u, files[stack])
            /\ IF exceeds(box_height.value, stack_u'.h)
               THEN /\ Goto("extend_box", "remove_SOL")
                    /\ extended_box' = extended_box
               ELSE /\ Goto("extend_box", "check")
                    /\ extended_box' = FALSE
       ELSE /\ Goto("extend_box", "check")
            /\ UNCHANGED <<stack_u, extended_box>>
    /\ UNCHANGED <<files, stack, box_height, entry, st_count, nonStageVars>>

\* the step of the calling method that follows remove_SOL()
after_remove_SOL(m) == IF m = "extend_box" THEN "center" ELSE "solvate"

\* remove_SOL, lines 326-329: the universe without SOL is written to the
\* file of the current stack
RemoveSOLWrite ==
    /\ st_pc.m \in {"extend_box", "solvate_box"}
    /\ st_pc.s = "remove_SOL"
    /\ stack_u' = not_resname_SOL(universe_of(stack_u, files[stack]))
    /\ files' = [files EXCEPT ![stack] = stack_u']
    /\ Goto(st_pc.m, "add_resnum")
    /\ UNCHANGED <<stack, box_height, entry, st_count, extended_box,
                   nonStageVars>>

\* remove_SOL, lines 330-331: add_resnum on the file, then the universe in
\* memory is written again
RemoveSOLResnum ==
    /\ st_pc.m \in {"extend_box", "solvate_box"}
    /\ st_pc.s = "add_resnum"
    /\ files' = [files EXCEPT ![stack] = universe_of(stack_u, files[stack])]
    /\ Goto(st_pc.m, after_remove_SOL(st_pc.m))
    /\ UNCHANGED <<stack, stack_u, box_height, entry, st_count, extended_box,
                   nonStageVars>>

\* faulty variant: extend_box is over after its first centring
OverAfterCenter(m, s) ==
    IF m = "extend_box"
    THEN [m |-> m, s |-> "check"]
    ELSE [m |-> "idle", s |-> "centered"]

\* where center_clay_in_box() returns to
after_center(m, s) ==
    IF m = "extend_box"
    THEN [m |-> m, s |-> IF s = "center" THEN "stamp" ELSE "check"]
    ELSE [m |-> "idle", s |-> "centered"]

\* center_clay_in_box: center_clay reads and writes the file of the current
\* stack, then the handle drops its universe
CenterClayInBox ==
    /\ \/ st_pc.m = "extend_box" /\ st_pc.s \in {"center", "recenter"}
       \/ At("center_clay_in_box", "center")
    /\ files' = [files EXCEPT ![stack] = center_clay(files[stack])]
    /\ stack_u' = NoFile
    /\ st_pc' = after_center(st_pc.m, st_pc.s)
    /\ UNCHANGED <<stack, box_height, entry, st_count, extended_box,
                   nonStageVars>>

\* extend_box, lines 302-312: the flag is set, the stack is reloaded and
\* given the new height, the handle moves to the "ext" file, which is written
ExtendBoxStamp ==
    /\ At("extend_box", "stamp")
    /\ extended_box' = TRUE
    /\ LET ext_boxname == tmp_file("ext")
           box_u == stamp_height(files[stack], box_height.value)
       IN  /\ files' = [path_setter_copy(files, stack, ext_boxname)
                           EXCEPT ![ext_boxname] = box_u]
           /\ stack' = ext_boxname
           /\ stack_u' = box_u
    /\ Goto("extend_box", "recenter")
    /\ UNCHANGED <<box_height, entry, st_count, nonStageVars>>

\* extend_box, line 321: check_box_lengths, then the method returns
ExtendBoxCheck ==
    /\ At("extend_box", "check")
    /\ stack_u' = universe_of(stack_u, files[stack])
    /\ Goto("idle", "extended")
    /\ UNCHANGED <<files, stack, box_height, entry, st_count, extended_box,
                   nonStageVars>>

\* a round of the bulk methods may start
RoundMayStart ==
    /\ At("idle", "extended") \/ At("idle", "relaxed")
    /\ st_count.rounds < MaxRounds

\* faulty variant: the bulk methods do not look at the flag
FlagIgnored(flag) == TRUE

\* `if self.extended_box is True:`, lines 341 and 442
extended_box_is_True(flag) == flag = TRUE

\* solvate_box() is called
SolvateBoxCall ==
    /\ RoundMayStart
    /\ st_count' = [st_count EXCEPT !.rounds = @ + 1]
    /\ Enter("solvate_box", "guard")
    /\ UNCHANGED <<files, stack, stack_u, box_height, extended_box,
                   nonStageVars>>

\* the caller leaves solvate_box out (args.bulk_solv is False)
SolvateBoxSkip ==
    /\ RoundMayStart
    /\ st_count' = [st_count EXCEPT !.rounds = @ + 1]
    /\ Goto("idle", "solvated")
    /\ UNCHANGED <<files, stack, stack_u, box_height, entry, extended_box,
                   nonStageVars>>

\* solvate_box, line 341 and the else branch
SolvateBoxGuard ==
    /\ At("solvate_box", "guard")
    /\ IF extended_box_is_True(extended_box)
       THEN Goto("solvate_box", "remove_SOL")
       ELSE Goto("idle", "solvated")
    /\ UNCHANGED <<files, stack, stack_u, box_height, entry, st_count,
                   extended_box, nonStageVars>>

\* solvate_box, lines 348-359: run_gmx_solvate reads the stack and writes
\* the solvated box to the "solv" file
SolvateBoxSolvate ==
    /\ At("solvate_box", "solvate")
    /\ files' = [files EXCEPT ![tmp_file("solv")] =
                    [files[stack] EXCEPT !.sol = TRUE]]
    /\ Goto("solvate_box", "select")
    /\ UNCHANGED <<stack, stack_u, box_height, entry, st_count, extended_box,
                   nonStageVars>>

\* solvate_box, lines 360-375: the solvent outside the clay is kept, the
\* "solv" file is written and becomes the stack
SolvateBoxSet ==
    /\ At("solvate_box", "select")
    /\ LET solv_box_crd == tmp_file("solv")
       IN  /\ files' = path_setter_copy(files, stack, solv_box_crd)
           /\ stack' = solv_box_crd
    /\ stack_u' = NoFile
    /\ Goto("idle", "solvated")
    /\ UNCHANGED <<box_height, entry, st_count, extended_box, nonStageVars>>

\* add_bulk_ions() is called
AddBulkIonsCall ==
    /\ At("idle", "solvated")
    /\ Enter("add_bulk_ions", "guard")
    /\ UNCHANGED <<files, stack, stack_u, box_height, st_count, extended_box,
                   nonStageVars>>

\* the caller leaves add_bulk_ions out (args.bulk_ion_conc is 0.0)
AddBulkIonsSkip ==
    /\ At("idle", "solvated")
    /\ Goto("idle", "ionised")
    /\ UNCHANGED <<files, stack, stack_u, box_height, entry, st_count,
                   extended_box, nonStageVars>>

\* add_bulk_ions, line 442 and the else branch
AddBulkIonsGuard ==
    /\ At("add_bulk_ions", "guard")
    /\ IF extended_box_is_True(extended_box)
       THEN Goto("add_bulk_ions", "copy")
       ELSE Goto("idle", "ionised")
    /\ UNCHANGED <<files, stack, stack_u, box_height, entry, st_count,
                   extended_box, nonStageVars>>

\* add_bulk_ions, lines 444-450: the stack is copied to the "solv_ions"
\* file, which becomes the stack
AddBulkIonsCopy ==
    /\ At("add_bulk_ions", "copy")
    /\ LET outcrd == tmp_file("solv_ions")
       IN  /\ files' = path_setter_copy([files EXCEPT ![outcrd] = files[stack]],
                                        stack, outcrd)
           /\ stack' = outcrd
    /\ stack_u' = NoFile
    /\ Goto("add_bulk_ions", "remove_bulk_ions")
    /\ UNCHANGED <<box_height, entry, st_count, extended_box, nonStageVars>>

\* remove_bulk_ions, lines 387-392: the universe without the ions outside
\* the clay is written to the file of the stack
AddBulkIonsRemove ==
    /\ At("add_bulk_ions", "remove_bulk_ions")
    /\ stack_u' = [universe_of(stack_u, files[stack]) EXCEPT !.ions = FALSE]
    /\ files' = [files EXCEPT ![stack] = stack_u']
    /\ Goto("add_bulk_ions", "insert")
    /\ UNCHANGED <<stack, box_height, entry, st_count, extended_box,
                   nonStageVars>>

\* add_bulk_ions, lines 457-532: add_ions_n_mols puts the ions (if any are
\* requested) into the file of the stack, which is reloaded and written
AddBulkIonsInsert ==
    /\ At("add_bulk_ions", "insert")
    /\ \E added \in BOOLEAN :
          files' = [files EXCEPT ![stack] = [@ EXCEPT !.ions = added]]
    /\ stack_u' = files'[stack]
    /\ Goto("idle", "ionised")
    /\ UNCHANGED <<stack, box_height, entry, st_count, extended_box,
                   nonStageVars>>

\* center_clay_in_box() is called
CenterClayCall ==
    /\ At("idle", "ionised")
    /\ Enter("center_clay_in_box", "center")
    /\ UNCHANGED <<files, stack, stack_u, box_height, st_count, extended_box,
                   nonStageVars>>

\* Builder.run_em: the relaxation writes its structure (when it produces
\* one) into args.outpath; the file is moved to args.outpath / "EM" and
\* becomes the stack
RunEm ==
    /\ At("idle", "centered")
    /\ \E outcome \in RelaxOutcomes \ {"fatal"}, produced \in BOOLEAN :
          IF produced \/ outcome = "converged"
          THEN LET file == [dir |-> "em", name |-> "em"]
               IN  /\ files' = path_setter_copy(
                                  [files EXCEPT ![file] = files[stack]],
                                  stack, file)
                   /\ stack' = file
                   /\ stack_u' = NoFile
          ELSE UNCHANGED <<files, stack, stack_u>>
    /\ Enter("idle", "relaxed")
    /\ UNCHANGED <<box_height, st_count, extended_box, nonStageVars>>

\* the relaxation failed fatally: run_em raises
RunEmFatal ==
    /\ At("idle", "centered")
    /\ Enter("failed", "run_em")
    /\ UNCHANGED <<files, stack, stack_u, box_height, st_count, extended_box,
                   nonStageVars>>

\* Builder.conclude: the stack moves to args.outpath, add_resnum, and the
\* scratch workspace is removed
Conclude ==
    /\ At("idle", "relaxed")
    /\ LET final == outpath_file(stack)
           copied == path_setter_copy(files, stack, final)
       IN  /\ files' = [p \in Paths |->
                           IF p.dir = "tmp" THEN NoFile ELSE copied[p]]
           /\ stack' = final
    /\ stack_u' = NoFile
    /\ Enter("idle", "concluded")
    /\ UNCHANGED <<box_height, st_count, extended_box, nonStageVars>>

\* an exception leaves the method in progress: a file operation or an
\* external service failed
StageRaise ==
    /\ st_pc.m \in {"extend_box", "solvate_box", "add_bulk_ions",
                    "center_clay_in_box"}
    \* the test of the flag in solvate_box and add_bulk_ions cannot fail
    /\ ~(st_pc.m \in {"solvate_box", "add_bulk_ions"} /\ st_pc.s = "guard")
    /\ Goto("failed", st_pc.m)
    /\ UNCHANGED <<files, stack, stack_u, box_height, entry, st_count,
                   extended_box, nonStageVars>>

\* state after Builder(args)
StageInit ==
    /\ NoSolvent
    /\ NoPipeline
    /\ st_pc = [m |-> "idle", s |-> "constructed"]
    /\ files = [p \in Paths |-> NoFile]
    /\ stack = NoPath
    /\ stack_u = NoFile
    /\ box_height \in BoxHeightArgs
    /\ entry = [stack |-> NoPath, content |-> NoFile, h |-> None,
                extended |-> FALSE]
    /\ st_count = [extends |-> 0, rounds |-> 0]
    /\ NoNames
    /\ NoSheets
    /\ NoLater

StageNext ==
    \/ WriteSheetCrds
    \/ StackSheets
    \/ ExtendBoxCall
    \/ ExtendBoxGuard
    \/ RemoveSOLWrite
    \/ RemoveSOLResnum
    \/ CenterClayInBox
    \/ ExtendBoxStamp
    \/ ExtendBoxCheck
    \/ SolvateBoxCall
    \/ SolvateBoxSkip
    \/ SolvateBoxGuard
    \/ SolvateBoxSolvate
    \/ SolvateBoxSet
    \/ AddBulkIonsCall
    \/ AddBulkIonsSkip
    \/ AddBulkIonsGuard
    \/ AddBulkIonsCopy
    \/ AddBulkIonsRemove
    \/ AddBulkIonsInsert
    \/ CenterClayCall
    \/ RunEm
    \/ RunEmFatal
    \/ Conclude
    \/ StageRaise

\* the Builder methods called in the documented order
StageSpec == StageInit /\ [][StageNext]_vars

\* ------------------------------------------------------------------------
\* Properties of the Builder methods on the structure files
\* ------------------------------------------------------------------------
\* extend_box has returned and no later method was called
ExtendBoxReturned == At("idle", "extended")

\* C11: extend_box applies only when the requested box_height exceeds the
\* box height of the current stack: then, after the call, extended_box is
\* True, the stack is the "ext" handle, its box height is box_height and it
\* holds no SOL residue; otherwise extended_box is False after the call and
\* the stack handle, its atoms and its box height are unchanged.
C11_ExtendBoxContract ==
    ExtendBoxReturned =>
        IF box_height.value > entry.h
        THEN /\ extended_box = TRUE
             /\ stack = tmp_file("ext")
             /\ files[stack].h = box_height.value
             /\ universe_of(stack_u, files[stack]).h = box_height.value
             /\ ~files[stack].sol
        ELSE /\ extended_box = FALSE
             /\ stack = entry.stack
             /\ files[stack] = entry.content
             /\ universe_of(stack_u, files[stack]) = entry.content

\* C11 witness: a stack that held SOL residues was extended to a higher box
C11_Witness ==
    /\ ExtendBoxReturned
    /\ entry.content.sol
    /\ box_height.value > entry.h
    /\ extended_box = TRUE
    /\ stack = tmp_file("ext")
    /\ entry.stack = tmp_file("stack")
    /\ files[stack].h = box_height.value

\* ------------------------------------------------------------------------
\* Builder.get_filename (assembly.py 651-701)
\* ------------------------------------------------------------------------
\* longest modifier list given to a call
MaxModifiers == 2

\* `solv_ion_list: list = ["solv", "ions"]`
solv_ion_list == <<"solv", "ions">>

\* the modifier strings of the model, in the order Python sorts them
StringOrder == <<"ext", "interlayer", "ions", "solv">>

Modifiers == {StringOrder[i] : i \in DOMAIN StringOrder}

\* the modifier lists a call may be given
ModifierLists == UNION {[1..n -> Modifiers] : n \in 0..MaxModifiers}

\* suffix arguments ("None": not given)
SuffixArgs == {"None", ".gro", "gro"}
\* sheetnum arguments (None: not given)
SheetnumArgs == {None, 0}
\* tcb_spec arguments ("None": not given; "X" is not an accepted tag)
TcbArgs == {"None", "T", "X"}

\* sorted(S) for a set of modifier strings
sorted(S) ==
    LET Member(m) == m \in S
    IN  SelectSeq(StringOrder, Member)

\* faulty variant: the known modifiers are kept in the order of the arguments
KnownInArgumentOrder(solv_ion_args) ==
    LET Known(m) == m \in Range(solv_ion_list)
    IN  SelectSeq(solv_ion_args, Known)

\* `arg_list = [s for s in solv_ion_list if s in solv_ion_args]`
known_modifiers(solv_ion_args) ==
    LET Given(m) == m \in Range(solv_ion_args)
    IN  SelectSeq(solv_ion_list, Given)

\* `suffix.strip(".")`
strip_dots(suffix) == IF suffix = ".gro" THEN "gro" ELSE suffix

\* `f".{suffix}"`
with_dot(suffix) == IF suffix = "gro" THEN ".gro" ELSE suffix

\* Builder.get_filename: the path it returns, by its components
get_filename(solv_ion_args, suffix, sheetnum, tcb_spec) ==
    IF tcb_spec \notin {"None", "T", "C", "B"}
    THEN [NotCalled EXCEPT !.raised = TRUE]
    ELSE LET arg_list == known_modifiers(solv_ion_args)
             other_args == Range(solv_ion_args) \ Range(arg_list)
         IN  [raised |-> FALSE,
              dir |-> "tmp",
              filestem |-> "filestem",
              sheetnum |-> sheetnum,
              tcb_spec |-> tcb_spec,
              mods |-> arg_list \o sorted(other_args),
              suffix |-> IF suffix = "None" THEN ""
                         ELSE with_dot(strip_dots(suffix))]

\* the first or the second call is made
GetFilename ==
    \E i \in {1, 2} :
       /\ gf_ret[i] = NotCalled
       /\ gf_ret' = [gf_ret EXCEPT ![i] =
                        get_filename(gf_args[i], gf_kw.suffix, gf_kw.sheetnum,
                                     gf_kw.tcb_spec)]
       /\ UNCHANGED <<gf_args, gf_kw, solvVars, argVars, runVars, ilVars,
                      cs_state, bulkVars, stageVars, sheetVars, laterVars>>

\* two calls about to be made with any modifiers and the same other arguments
NameInit ==
    /\ NoSolvent
    /\ NoPipeline
    /\ NoStage
    /\ NoSheets
    /\ NoLater
    /\ gf_args \in ModifierLists \X ModifierLists
    /\ gf_kw \in [suffix : SuffixArgs, sheetnum : SheetnumArgs,
                  tcb_spec : TcbArgs]
    /\ gf_ret = <<NotCalled, NotCalled>>

NameNext == GetFilename

\* Builder.get_filename called twice on one Builder
NameSpec == NameInit /\ [][NameNext]_vars

\* position of a modifier in the canonical order: "solv", "ions", then the
\* others as sorted
CanonicalOrder ==
    solv_ion_list \o SelectSeq(StringOrder, LAMBDA m : m \notin Range(solv_ion_list))

Rank(m) == CHOOSE i \in DOMAIN CanonicalOrder : CanonicalOrder[i] = m

\* both calls returned a path
BothNamed ==
    \A i \in {1, 2} : gf_ret[i] # NotCalled /\ ~gf_ret[i].raised

\* C12: get_filename is canonical in its modifiers: the modifiers of the
\* result are exactly those given, "solv" then "ions" first, the others
\* after them in sorted order, each once; so two calls given permutations
\* or repetitions of the same modifiers (and the same stem, sheet number,
\* tag and suffix) return the identical path.
C12_FilenameCanonical ==
    /\ \A i \in {1, 2} :
          (gf_ret[i] # NotCalled /\ ~gf_ret[i].raised) =>
             /\ Range(gf_ret[i].mods) = Range(gf_args[i])
             /\ \A j, k \in DOMAIN gf_ret[i].mods :
                   j < k => Rank(gf_ret[i].mods[j]) < Rank(gf_ret[i].mods[k])
    /\ (BothNamed /\ Range(gf_args[1]) = Range(gf_args[2]))
          => gf_ret[1] = gf_ret[2]

\* C12 witness: ("ions", "solv") and ("solv", "ions") gave the same path,
\* with "solv" before "ions"
C12_Witness ==
    /\ BothNamed
    /\ gf_args = << <<"ions", "solv">>, <<"solv", "ions">> >>
    /\ gf_ret[1] = gf_ret[2]
    /\ gf_ret[1].mods = <<"solv", "ions">>
    /\ gf_ret[1].suffix = ".gro"

\* ------------------------------------------------------------------------
\* Sheet (assembly.py 811-989)
\* ------------------------------------------------------------------------
\* write_gro calls made in one behaviour
MaxGroWrites == 2
\* distinct shuffles the generators are asked for in one behaviour
MaxShuffles == 4

\* `uc_ids`: the unit-cell ids of the sheet
uc_ids == <<1, 2>>

\* sheets: grid, number of unit cells per id, atoms per unit cell of each id;
\* the numbers add up to x_cells * y_cells
SheetSpecs ==
    { [x_cells |-> 2, y_cells |-> 2, uc_numbers |-> <<3, 1>>, n_atoms |-> <<1, 1>>],
      [x_cells |-> 3, y_cells |-> 1, uc_numbers |-> <<2, 1>>, n_atoms |-> <<2, 2>>] }

\* sheets whose unit-cell variants may have different numbers of atoms
GridSpecs ==
    { [x_cells |-> 2, y_cells |-> 2, uc_numbers |-> <<2, 2>>, n_atoms |-> <<1, 2>>],
      [x_cells |-> 3, y_cells |-> 1, uc_numbers |-> <<2, 1>>, n_atoms |-> <<1, 2>>] }

\* sheet indices assigned to n_sheet (None: no number)
SheetIndexArgs == {None, 0, 1}

\* seeds of the generators
Seeds == SheetIndexArgs \ {None}

\* the Sheet objects
SheetObjects == {1, 2}

RECURSIVE np_repeat(_, _)
\* numpy.repeat(values, repeats): values[i] repeated repeats[i] times
np_repeat(values, repeats) ==
    IF values = <<>> THEN <<>>
    ELSE [i \in 1..Head(repeats) |-> Head(values)]
            \o np_repeat(Tail(values), Tail(repeats))

\* number of entries of a sequence equal to v
Count(seq, v) == Cardinality({i \in DOMAIN seq : seq[i] = v})

\* sorted(seq) for a sequence of unit-cell ids
sorted_ids(seq) ==
    np_repeat(uc_ids, [i \in DOMAIN uc_ids |-> Count(seq, uc_ids[i])])

\* faulty variant: every id once, whatever its number
UcArrayOncePerId(ids, numbers) == sorted_ids(ids)

\* Sheet.uc_array
uc_array(ids, numbers) == sorted_ids(np_repeat(ids, numbers))

\* Generator.shuffle(array): the orders it may leave the array in
Shuffles(array) ==
    {a \in [DOMAIN array -> Range(array)] :
        \A v \in Range(array) : Count(a, v) = Count(array, v)}

\* Sheet.__cells_shift: 0 .. n_cells - 1, each repeated n_atoms[k] times
cells_shift(n_cells, n_atoms) ==
    np_repeat([k \in 1..n_cells |-> k - 1], n_atoms)

\* `np.array([n_atoms[uc_id] for uc_id in uc_array]).reshape(x_cells, y_cells)`
reshape_n_atoms(array, n_atoms, x_cells, y_cells) ==
    [i \in 1..x_cells |-> [j \in 1..y_cells |-> n_atoms[array[(i - 1) * y_cells + j]]]]

\* np.apply_along_axis(x_repeats, arr=uc_n_atoms, axis=0): one result per column
x_results(m, x_cells, y_cells) ==
    [j \in 1..y_cells |-> cells_shift(x_cells, [i \in 1..x_cells |-> m[i][j]])]

\* np.apply_along_axis(y_repeats, arr=uc_n_atoms, axis=1): one result per row
y_results(m, x_cells, y_cells) ==
    [i \in 1..x_cells |-> cells_shift(y_cells, m[i])]

\* np.apply_along_axis stores every result in an array shaped after the
\* first one: results of another length raise ValueError
same_lengths(results) ==
    \A k \in DOMAIN results : Len(results[k]) = Len(results[1])

RECURSIVE Flatten(_)
Flatten(seqs) ==
    IF seqs = <<>> THEN <<>> ELSE Head(seqs) \o Flatten(Tail(seqs))

\* np.ravel(order="F") of the x results, shape (1, L, y_cells): column after column
ravel_x(results) == Flatten(results)

\* np.ravel(order="F") of the y results, shape (x_cells, 1, L): the rows interleaved
ravel_y(results, x_cells) ==
    [t \in 1..(x_cells * Len(results[1])) |->
        results[((t - 1) % x_cells) + 1][((t - 1) \div x_cells) + 1]]

\* `sheet_df`: the atoms of the unit cells of the sequence, cell after cell;
\* for every atom the position in the sequence of the cell it belongs to
sheet_df(array, n_atoms) ==
    np_repeat([c \in DOMAIN array |-> c], [c \in DOMAIN array |-> n_atoms[array[c]]])

\* `sheet_n_atoms`
sheet_n_atoms(array, n_atoms) == Len(sheet_df(array, n_atoms))

\* faulty variant: an existing generator is kept
KeepGenerator(sheet, n_sheet) ==
    IF n_sheet # None
    THEN [sheet EXCEPT !.n_sheet = n_sheet,
                       !.seed = IF sheet.seed = None THEN n_sheet ELSE @,
                       !.assigned = TRUE, !.raised = "none"]
    ELSE [sheet EXCEPT !.n_sheet = None, !.seed = None, !.draws = 0,
                       !.assigned = FALSE, !.raised = "none"]

\* Sheet.n_sheet setter: an int sets the number and a generator seeded with it
n_sheet_setter(sheet, n_sheet) ==
    IF n_sheet # None
    THEN [sheet EXCEPT !.n_sheet = n_sheet, !.seed = n_sheet, !.draws = 0,
                       !.assigned = TRUE, !.raised = "none"]
    ELSE [sheet EXCEPT !.n_sheet = None, !.seed = None, !.draws = 0,
                       !.assigned = FALSE, !.raised = "none"]

\* Sheet.__init__: the number is set through the setter, then __random = None
Sheet_init(n_sheet) ==
    [n_sheet |-> n_sheet, seed |-> None, draws |-> 0, assigned |-> FALSE,
     raised |-> "none"]

\* the shuffle the generator seeded with seed gives at its draw-th call is
\* a, now or as produced before
Draws(seed, draw, a) == rng[<<seed, draw>>] \in {<<>>, a}

\* the shuffles produced so far
Drawn == {k \in DOMAIN rng : rng[k] # <<>>}

\* Sheet.write_gro with the two shuffles sel and shift: the sheet is written
\* from sel, the position shifts are computed from shift
write_gro(sheet, sel, shift) ==
    LET x_cells == sh_spec.x_cells
        y_cells == sh_spec.y_cells
        \* reshape raises ValueError for another number of entries
        fits == Len(shift) = x_cells * y_cells
        uc_n_atoms == reshape_n_atoms(shift, sh_spec.n_atoms, x_cells, y_cells)
        xr == x_results(uc_n_atoms, x_cells, y_cells)
        yr == y_results(uc_n_atoms, x_cells, y_cells)
        shaped == fits /\ same_lengths(xr) /\ same_lengths(yr)
        n == sheet_n_atoms(sel, sh_spec.n_atoms)
        added == shaped /\ Len(ravel_x(xr)) = n
                        /\ Len(ravel_y(yr, x_cells)) = n
    IN  [n_sheet |-> sheet.n_sheet, after_assign |-> sheet.assigned,
         raised |-> IF added THEN "none" ELSE "ValueError",
         base |-> uc_array(uc_ids, sh_spec.uc_numbers),
         base_again |-> uc_array(uc_ids, sh_spec.uc_numbers),
         sel |-> sel, shift |-> shift,
         x_pos_shift |-> IF added THEN ravel_x(xr) ELSE <<>>,
         y_pos_shift |-> IF added THEN ravel_y(yr, x_cells) ELSE <<>>]

\* sheet.n_sheet = k
SetNSheet ==
    /\ \E o \in SheetObjects, k \in SheetIndexArgs :
          sheets' = [sheets EXCEPT ![o] = n_sheet_setter(sheets[o], k)]
    /\ UNCHANGED <<sh_spec, rng, gro_log, solvVars, argVars, runVars, ilVars,
                   cs_state, bulkVars, stageVars, nameVars, laterVars>>

\* sheet.write_gro() without a sheet number or without a generator:
\* the n_sheet or random_generator property raises AttributeError
WriteGroUnset ==
    /\ \E o \in SheetObjects :
          /\ sheets[o].n_sheet = None \/ sheets[o].seed = None
          /\ sheets' = [sheets EXCEPT ![o].assigned = FALSE,
                                      ![o].raised = "AttributeError"]
    /\ UNCHANGED <<sh_spec, rng, gro_log, solvVars, argVars, runVars, ilVars,
                   cs_state, bulkVars, stageVars, nameVars, laterVars>>

\* sheet.write_gro(): two shuffles of uc_array are taken from the generator
WriteGro ==
    /\ Len(gro_log) < MaxGroWrites
    /\ \E o \in SheetObjects :
          LET sheet == sheets[o]
              first == sheet.draws + 1
              second == sheet.draws + 2
          IN  /\ sheet.n_sheet # None /\ sheet.seed # None
              /\ Cardinality(Drawn \cup {<<sheet.seed, first>>,
                                          <<sheet.seed, second>>})
                    <= MaxShuffles
              /\ \E sel, shift \in Shuffles(uc_array(uc_ids, sh_spec.uc_numbers)) :
                    /\ Draws(sheet.seed, first, sel)
                    /\ Draws(sheet.seed, second, shift)
                    /\ rng' = [rng EXCEPT ![<<sheet.seed, first>>] = sel,
                                          ![<<sheet.seed, second>>] = shift]
                    /\ gro_log' = Append(gro_log, write_gro(sheet, sel, shift))
              /\ sheets' = [sheets EXCEPT ![o].draws = second,
                                          ![o].assigned = FALSE,
                                          ![o].raised =
                                              gro_log'[Len(gro_log')].raised]
    /\ UNCHANGED <<sh_spec, solvVars, argVars, runVars, ilVars,
                   cs_state, bulkVars, stageVars, nameVars, laterVars>>

\* two Sheet objects constructed for the same unit-cell data
SheetsOf(specs) ==
    /\ NoSolvent
    /\ NoPipeline
    /\ NoStage
    /\ NoNames
    /\ NoLater
    /\ sh_spec \in specs
    /\ \E k \in {None, 0} :
          sheets = [o \in SheetObjects |->
                       IF o = 1 THEN Sheet_init(k) ELSE Sheet_init(None)]
    /\ rng = [k \in Seeds \X (1..MaxShuffles) |-> <<>>]
    /\ gro_log = <<>>

SheetInit == SheetsOf(SheetSpecs)

GridInit == SheetsOf(GridSpecs)

SheetNext ==
    \/ SetNSheet
    \/ WriteGroUnset
    \/ WriteGro

\* Sheet objects used through n_sheet and write_gro
SheetSpec == SheetInit /\ [][SheetNext]_vars

\* the same, for sheets of unit cells with different numbers of atoms
GridSpec == GridInit /\ [][SheetNext]_vars

\* the write_gro calls that shuffled
Written == {gro_log[k] : k \in DOMAIN gro_log}

\* the write_gro calls that were the first after an assignment of n_sheet
FirstWritten == {e \in Written : e.after_assign}

\* C13: two write_gro calls that follow an assignment of the same sheet
\* number use the same atom-selection shuffle and the same position-shift
\* shuffle, whichever Sheet object makes them; uc_array is the same sorted
\* sequence at every access.
C13_SheetDeterminism ==
    /\ \A a, b \in FirstWritten :
          a.n_sheet = b.n_sheet => a.sel = b.sel /\ a.shift = b.shift
    /\ \A e \in Written :
          e.base = e.base_again /\ e.base = sorted_ids(e.base)

\* both objects were given the same number and wrote once, with the same
\* shuffles, which differ from uc_array
C13_Witness ==
    /\ Len(gro_log) = 2
    /\ gro_log[1].after_assign /\ gro_log[2].after_assign
    /\ gro_log[1].n_sheet = gro_log[2].n_sheet
    /\ \A o \in SheetObjects : sheets[o].draws = 2
    /\ gro_log[1].sel = gro_log[2].sel /\ gro_log[1].shift = gro_log[2].shift
    /\ gro_log[1].sel # gro_log[1].base
    /\ gro_log[1].shift # gro_log[1].sel

\* C27: the arrangement of unit cells written for a sheet number is the same
\* in every write_gro call for that number, also in a call that follows
\* another write_gro without an assignment of n_sheet in between.
C27_SheetReinvocable ==
    \A a, b \in Written : a.n_sheet = b.n_sheet => a.sel = b.sel

\* seq has one entry per unit cell of the grid and each id as often as configured
Permutes(seq) ==
    /\ Len(seq) = sh_spec.x_cells * sh_spec.y_cells
    /\ \A i \in DOMAIN uc_ids : Count(seq, uc_ids[i]) = sh_spec.uc_numbers[i]

\* C14: both shuffled sequences of every write_gro call have x_cells * y_cells
\* entries and hold every unit-cell id as often as uc_numbers says.
C14_ShufflesPermute ==
    \A e \in Written : Permutes(e.sel) /\ Permutes(e.shift)

\* a 3:1 sheet of 2 x 2 cells written with the odd cell moved to the front
C14_Witness ==
    /\ sh_spec.uc_numbers = <<3, 1>>
    /\ \E e \in Written :
          /\ e.sel = <<2, 1, 1, 1>>
          /\ e.shift = <<1, 1, 2, 1>>
          /\ e.raised = "none"

\* the grid offsets given to the atoms of a written sheet
offsets(e) ==
    [t \in DOMAIN e.x_pos_shift |-> <<e.x_pos_shift[t], e.y_pos_shift[t]>>]

\* C15: in a sheet that write_gro wrote, the atoms of one unit cell have the
\* same grid offset, different unit cells have different offsets and the
\* offsets are all the positions of the x_cells by y_cells grid.
C15_GridPlacement ==
    \A e \in Written :
        e.raised = "none" =>
            LET cell == sheet_df(e.sel, sh_spec.n_atoms)
                off == offsets(e)
            IN  /\ \A t, u \in DOMAIN cell :
                      (cell[t] = cell[u]) <=> (off[t] = off[u])
                /\ {off[t] : t \in DOMAIN off}
                      = (0..(sh_spec.x_cells - 1)) \X (0..(sh_spec.y_cells - 1))

\* ------------------------------------------------------------------------
\* Builder.stack_sheets (assembly.py 536-606)
\* ------------------------------------------------------------------------
\* `args.n_sheets` goes up to
MaxSheets == 3

\* sheet heights (bbox_height of the unit-cell data), tenths of Angstrom
BboxHeights == {66, 70}

\* heights of the interlayer box; None: `il_solv` was never set
IlHeights == {None, 0, 35}

\* `extra`: the default 2.0 and another spacing
Extras == {20, 5}

\* the beta angle of the sheet files
Betas == {90, 100}

RECURSIVE np_sum(_)
\* np.sum(sheet_heights)
np_sum(seq) == IF seq = <<>> THEN 0 ELSE Head(seq) + np_sum(Tail(seq))

\* faulty variant: the slab is put above its own height once more
TranslationFromOne(sheet_id, height) == (sheet_id + 1) * height

\* `sheet_id * sheet_u.dimensions[2]`
translation(sheet_id, height) == sheet_id * height

\* sheet_u.dimensions[2] when the slab is appended
slab_height(sheet, il, extra, found) ==
    IF found
    THEN ((sheet + extra) + il) + extra
    ELSE (sheet + extra) + (2 * extra)

nonStackVars == <<solvVars, argVars, runVars, ilVars, cs_state, bulkVars,
                  stageVars, nameVars, sheetVars, workspaceVars, bulkIonVars,
                  moreVars>>

\* faulty variant: reading the handle always ends in the except branch
NeverRead(il) == FALSE

\* lines 538-552: `self.il_solv` and its universe can be read; without a
\* handle the getter raises AttributeError, which the except branch catches
il_solv_read(il) == il # None

\* the try block: the il_solv handle exists or AttributeError is caught
StackTry ==
    /\ sk_pc = "begin"
    /\ il_solv_found' = il_solv_read(sk_in.il)
    /\ sk_pc' = "loop"
    /\ UNCHANGED <<sk_in, sheet_universes, sheet_heights, combined_dims,
                   nonStackVars>>

\* one pass of `for sheet_id in range(self.args.n_sheets)`
StackSlab ==
    /\ sk_pc = "loop"
    /\ Len(sheet_heights) < sk_in.n_sheets
    /\ LET sheet_id == Len(sheet_heights)
           height == slab_height(sk_in.sheet, sk_in.il, sk_in.extra,
                                 il_solv_found)
       IN  /\ sheet_universes' =
                 Append(sheet_universes,
                        [z |-> translation(sheet_id, height), top |-> height,
                         il |-> il_solv_found])
           /\ sheet_heights' = Append(sheet_heights, height)
    /\ UNCHANGED <<sk_pc, sk_in, il_solv_found, combined_dims, nonStackVars>>

\* the loop is over
StackLoopEnd ==
    /\ sk_pc = "loop"
    /\ Len(sheet_heights) = sk_in.n_sheets
    /\ sk_pc' = "combine"
    /\ UNCHANGED <<sk_in, il_solv_found, sheet_universes, sheet_heights,
                   combined_dims, nonStackVars>>

\* Merge, the new dimensions, the stack file
StackCombine ==
    /\ sk_pc = "combine"
    /\ LET sheet_u == [h |-> sheet_heights[Len(sheet_heights)],
                       angles |-> <<90, sk_in.beta, 90>>]
       IN  combined_dims' = [sheet_u EXCEPT !.h = np_sum(sheet_heights),
                                            !.angles = <<90, 90, 90>>]
    /\ sk_pc' = "done"
    /\ UNCHANGED <<sk_in, il_solv_found, sheet_universes, sheet_heights,
                   nonStackVars>>

\* stack_sheets() is called after the sheets were written with one height
StackInit ==
    /\ NoSolvent
    /\ NoPipeline
    /\ NoStage
    /\ NoNames
    /\ NoSheets
    /\ NoWorkspace
    /\ NoBulkIons
    /\ NoMore
    /\ sk_pc = "begin"
    /\ sk_in \in [n_sheets : 1..MaxSheets, sheet : BboxHeights, il : IlHeights,
                   extra : Extras, beta : Betas]
    /\ il_solv_found = FALSE
    /\ sheet_universes = <<>>
    /\ sheet_heights = <<>>
    /\ combined_dims = NoCombined

StackNext ==
    \/ StackTry
    \/ StackSlab
    \/ StackLoopEnd
    \/ StackCombine

StackSpec == StackInit /\ [][StackNext]_vars

\* the heights of the slabs before slab k (k from 1)
HeightsBelow(k) == np_sum(SubSeq(sheet_heights, 1, k - 1))

\* C16: when stack_sheets has combined the slabs, every slab was moved up by
\* the sum of the heights of the slabs before it, the box is as high as all
\* slabs together with angles 90/90/90, and every slab is the sheet plus two
\* spacings plus the interlayer, or the sheet plus three spacings without one.
C16_StackGeometry ==
    sk_pc = "done" =>
        /\ Len(sheet_universes) = sk_in.n_sheets
        /\ \A k \in DOMAIN sheet_universes :
              /\ sheet_universes[k].z = HeightsBelow(k)
              /\ sheet_heights[k] =
                    IF sk_in.il # None
                    THEN sk_in.sheet + 2 * sk_in.extra + sk_in.il
                    ELSE sk_in.sheet + 3 * sk_in.extra
        /\ combined_dims.h = np_sum(sheet_heights)
        /\ combined_dims.angles = <<90, 90, 90>>

\* three slabs with an interlayer, stacked from tilted sheet files
C16_Witness ==
    /\ sk_pc = "done"
    /\ sk_in.n_sheets = 3 /\ sk_in.il = 35 /\ sk_in.extra = 20
    /\ sk_in.sheet = 66 /\ sk_in.beta = 100
    /\ sheet_universes[3].z = 282
    /\ combined_dims.h = 423

\* C35: stack_sheets merges the interlayer into a slab exactly if the
\* il_solv handle was set: without a handle every slab is the bare sheet and
\* the method still combines them, with a handle every slab has its
\* interlayer.
C35_InterlayerIffHandle ==
    /\ sk_pc # "begin" => (il_solv_found <=> sk_in.il # None)
    /\ \A k \in DOMAIN sheet_universes :
          /\ sheet_universes[k].il <=> sk_in.il # None
          /\ sheet_universes[k].top =
                IF sk_in.il # None
                THEN sk_in.sheet + 2 * sk_in.extra + sk_in.il
                ELSE sk_in.sheet + 3 * sk_in.extra
    /\ sk_pc = "done" => Len(sheet_universes) = sk_in.n_sheets

\* three bare sheets were stacked although no interlayer handle was set
C35_Witness ==
    /\ sk_pc = "done"
    /\ sk_in.il = None
    /\ sk_in.n_sheets = 3
    /\ ~il_solv_found
    /\ \A k \in 1..3 : ~sheet_universes[k].il

\* ------------------------------------------------------------------------
\* The scratch workspace (assembly.py 63-69, 263-270, 695-701)
\* ------------------------------------------------------------------------
\* Builder objects constructed in one process
MaxBuilders == 3

\* get_filename calls made in one process
MaxNamed == 3

Builders == 1..MaxBuilders

NoBuilder == [state |-> "none", has_stack |-> FALSE, raised |-> "none"]

\* TemporaryDirectory.cleanup(): the directory is removed; nothing is left
\* to remove the second time
cleanup(dir) == "released"

nonWorkspaceVars == <<solvVars, argVars, runVars, ilVars, cs_state, bulkVars,
                      stageVars, nameVars, sheetVars, stackVars, bulkIonVars,
                      moreVars>>

\* Builder(build_args): __init__ does not touch __tmp_outpath
BuilderInit ==
    /\ \E b \in Builders :
          /\ builders[b].state = "none"
          /\ builders' = [builders EXCEPT ![b].state = "constructed"]
    /\ UNCHANGED <<tmp_outpath, named, nonWorkspaceVars>>

\* a stage of builder b names a file with get_filename and sets its stack to
\* it: the path is in the directory of the class, as it is now
BuilderGetFilename ==
    /\ Len(named) < MaxNamed
    /\ \E b \in Builders :
          /\ builders[b].state \in {"constructed", "concluded"}
          /\ named' = Append(named, [by |-> b, target |-> tmp_outpath])
          /\ builders' = [builders EXCEPT
                             ![b].has_stack = (tmp_outpath = "exists"),
                             ![b].raised = IF tmp_outpath = "exists" THEN "none"
                                           ELSE "FileNotFoundError"]
    /\ UNCHANGED <<tmp_outpath, nonWorkspaceVars>>

\* builder.conclude(): the stack handle is read and copied to the output
\* directory, then the directory of the class is cleaned up
BuilderConclude ==
    /\ \E b \in Builders :
          /\ builders[b].state = "constructed"
          /\ IF ~builders[b].has_stack
             THEN /\ builders' = [builders EXCEPT
                                    ![b].raised = "AttributeError",
                                    ![b].state = "failed"]
                  /\ UNCHANGED tmp_outpath
             ELSE IF tmp_outpath # "exists"
             THEN /\ builders' = [builders EXCEPT
                                    ![b].raised = "FileNotFoundError",
                                    ![b].state = "failed"]
                  /\ UNCHANGED tmp_outpath
             ELSE /\ tmp_outpath' = cleanup(tmp_outpath)
                  /\ builders' = [builders EXCEPT ![b].state = "concluded"]
    /\ UNCHANGED <<named, nonWorkspaceVars>>

\* the class statement was executed: the directory exists before any Builder
WorkspaceInit ==
    /\ NoSolvent
    /\ NoPipeline
    /\ NoStage
    /\ NoNames
    /\ NoSheets
    /\ NoStack
    /\ NoBulkIons
    /\ NoMore
    /\ tmp_outpath = "exists"
    /\ builders = [b \in Builders |-> NoBuilder]
    /\ named = <<>>

WorkspaceNext ==
    \/ BuilderInit
    \/ BuilderGetFilename
    \/ BuilderConclude

WorkspaceSpec == WorkspaceInit /\ [][WorkspaceNext]_vars

\* C17: the workspace that get_filename targets exists for every Builder that
\* was constructed and has not concluded, and no get_filename call targets a
\* workspace that a conclude has released.
C17_WorkspacePerBuilder ==
    /\ \A b \in Builders :
          builders[b].state = "constructed" => tmp_outpath = "exists"
    /\ \A k \in DOMAIN named : named[k].target = "exists"

\* ------------------------------------------------------------------------
\* The files of the stages (StageSpec)
\* ------------------------------------------------------------------------
\* the final output directory: args.outpath and its EM subdirectory
OutputDirs == {"out", "em"}

\* C18: until conclude has run, also after a stage has failed, no structure
\* file of the run is in the final output directory.
C18_OutputEmptyBeforeConclude ==
    ~At("idle", "concluded") =>
        \A p \in Paths : p.dir \in OutputDirs => files[p] = NoFile

\* the stages in which the claim lets no file of the entry handle be written
WholesaleMethods ==
    {"extend_box", "solvate_box", "add_bulk_ions", "center_clay_in_box"}

\* C19: while one of the pipeline methods runs, and after it has failed
\* part-way, the file of the stack handle that was current when the method
\* was entered holds what it held at entry.
C19_EntryFileUntouched ==
    (st_pc.m \in WholesaleMethods
        \/ (st_pc.m = "failed" /\ st_pc.s \in WholesaleMethods)) =>
        (entry.stack # NoPath => files[entry.stack] = entry.content)

\* ------------------------------------------------------------------------
\* Builder.add_bulk_ions, the ion counts (assembly.py 462-523)
\* ------------------------------------------------------------------------
\* the code's float charges are kept in tenths of e, its ints in e

\* `n_ions` of a concentration goes up to
MaxBulkIons == 2

\* `self.args.il_ions.clay_charge`, tenths of e
ClayCharges == {0 - 30, 0 - 20, 0 - 10, 0, 10, 20}

\* `self.args.bulk_ion_df` rows (charge, conc), conc already as the number
\* of ions it stands for in the bulk volume
BulkIonDfs ==
    {<<>>}
    \cup {<<[charge |-> 10, n_ions |-> n]>> : n \in 0..MaxBulkIons}
    \cup {<<[charge |-> c, n_ions |-> n], [charge |-> 0 - 10, n_ions |-> m]>> :
             c \in {10, 20}, n \in 0..MaxBulkIons, m \in 0..MaxBulkIons}

\* `self.args.bulk_ions`: the charges (e) of the species of the ratio table
BulkIonTables == {<<1, 0 - 1>>, <<2, 0 - 1>>, <<2, 0 - 2>>}

\* int(x) for x in tenths: the fraction is cut off, towards zero
int_tenths(x) == IF x >= 0 THEN x \div 10 ELSE 0 - ((0 - x) \div 10)

\* faulty variant: the concentration-driven ions are left out
ExcessOfClayAlone(clay_charge, ion_charge) == int_tenths(clay_charge)

\* `int(self.args.il_ions.clay_charge + ion_charge)`
excess_of(clay_charge, ion_charge) == int_tenths(clay_charge + 10 * ion_charge)

RECURSIVE added_charge(_)
\* the charge (e) of the ions asked for in the add_ions_n_mols calls
added_charge(calls_made) ==
    IF calls_made = <<>> THEN 0
    ELSE Head(calls_made).charge * Head(calls_made).n_atoms
            + added_charge(Tail(calls_made))

\* the neutralisation solver: the counts of compensating species whose
\* charges add up to exactly the negative of the target
exact_counts(tot_charge, species) ==
    LET size == IF tot_charge >= 0 THEN tot_charge ELSE 0 - tot_charge
    IN  {n \in [DOMAIN species -> 0..size] :
            /\ \A i \in DOMAIN species :
                  n[i] > 0 => species[i] * tot_charge < 0
            /\ added_charge([i \in DOMAIN species |->
                                [charge |-> species[i], n_atoms |-> n[i]]])
                  = 0 - tot_charge}

\* `neutral_bulk_ions.df`: one row per species with a count
InterlayerIons_df(species, n) ==
    SelectSeq([i \in DOMAIN species |-> [charge |-> 10 * species[i],
                                         n_ions |-> n[i]]],
              LAMBDA row : row.n_ions > 0)

nonBulkIonVars == <<solvVars, argVars, runVars, ilVars, cs_state, bulkVars,
                    stageVars, nameVars, sheetVars, stackVars, workspaceVars,
                    moreVars>>

\* one pass of `for ion, values in ion_df.iterrows()`
AddBulkIonsConc ==
    /\ ib_pc = "conc"
    /\ Len(ib_added) < Len(ib_in.ion_df)
    /\ LET row == ib_in.ion_df[Len(ib_added) + 1]
       IN  /\ ib_ion_charge' = ib_ion_charge + int_tenths(row.charge * row.n_ions)
           /\ ib_added' = Append(ib_added, [charge |-> int_tenths(row.charge),
                                            n_atoms |-> row.n_ions])
    /\ UNCHANGED <<ib_pc, ib_in, excess_charge, neutral_bulk_ions,
                   nonBulkIonVars>>

\* `excess_charge = ...` and `if excess_charge != 0`
AddBulkIonsExcess ==
    /\ ib_pc = "conc"
    /\ Len(ib_added) = Len(ib_in.ion_df)
    /\ excess_charge' = excess_of(ib_in.clay_charge, ib_ion_charge)
    /\ ib_pc' = IF excess_charge' # 0 THEN "neutral" ELSE "done"
    /\ UNCHANGED <<ib_in, ib_ion_charge, neutral_bulk_ions, ib_added,
                   nonBulkIonVars>>

\* InterlayerIons(excess_charge, ion_ratios=..., neutral=True) finds counts
AddBulkIonsSolve ==
    /\ ib_pc = "neutral"
    /\ \E n \in exact_counts(excess_charge, ib_in.bulk_ions) :
          neutral_bulk_ions' = InterlayerIons_df(ib_in.bulk_ions, n)
    /\ ib_pc' = "insert"
    /\ UNCHANGED <<ib_in, ib_ion_charge, excess_charge, ib_added,
                   nonBulkIonVars>>

\* InterlayerIons finds no exact combination: the stage fails
AddBulkIonsNoCombination ==
    /\ ib_pc = "neutral"
    /\ exact_counts(excess_charge, ib_in.bulk_ions) = {}
    /\ ib_pc' = "fatal"
    /\ UNCHANGED <<ib_in, ib_ion_charge, excess_charge, neutral_bulk_ions,
                   ib_added, nonBulkIonVars>>

\* one pass of `for ion, values in neutral_bulk_ions.df.iterrows()`
AddBulkIonsNeutral ==
    /\ ib_pc = "insert"
    /\ neutral_bulk_ions # <<>>
    /\ LET row == Head(neutral_bulk_ions)
       IN  ib_added' = Append(ib_added, [charge |-> int_tenths(row.charge),
                                        n_atoms |-> row.n_ions])
    /\ neutral_bulk_ions' = Tail(neutral_bulk_ions)
    /\ UNCHANGED <<ib_pc, ib_in, ib_ion_charge, excess_charge, nonBulkIonVars>>

\* the loop over the neutralising ions is over
AddBulkIonsReturn ==
    /\ ib_pc = "insert"
    /\ neutral_bulk_ions = <<>>
    /\ ib_pc' = "done"
    /\ UNCHANGED <<ib_in, ib_ion_charge, excess_charge, neutral_bulk_ions,
                   ib_added, nonBulkIonVars>>

\* add_bulk_ions in an extended box, at `ion_charge = 0`
BulkIonInit ==
    /\ NoSolvent
    /\ NoPipeline
    /\ NoStage
    /\ NoNames
    /\ NoSheets
    /\ NoStack
    /\ NoWorkspace
    /\ NoMore
    /\ ib_pc = "conc"
    /\ ib_in \in [clay_charge : ClayCharges, ion_df : BulkIonDfs,
                   bulk_ions : BulkIonTables]
    /\ ib_ion_charge = 0
    /\ excess_charge = None
    /\ neutral_bulk_ions = <<>>
    /\ ib_added = <<>>

BulkIonNext ==
    \/ AddBulkIonsConc
    \/ AddBulkIonsExcess
    \/ AddBulkIonsSolve
    \/ AddBulkIonsNoCombination
    \/ AddBulkIonsNeutral
    \/ AddBulkIonsReturn

BulkIonSpec == BulkIonInit /\ [][BulkIonNext]_vars

\* the calls made for the concentrations, and those made to neutralise
ConcCalls == SubSeq(ib_added, 1, Len(ib_in.ion_df))

NeutralCalls == SubSeq(ib_added, Len(ib_in.ion_df) + 1, Len(ib_added))

\* C20: when add_bulk_ions is through, the excess is the clay charge plus
\* the charge of the concentration-driven ions, the neutralising ions asked
\* for carry exactly the negative of a nonzero excess, and the clay charge
\* with all ions asked for is zero; when no exact combination exists the
\* stage has failed and no neutralising ion was asked for.
C20_BulkChargeNeutral ==
    /\ ib_pc = "done" =>
          /\ 10 * excess_charge
                = ib_in.clay_charge + 10 * added_charge(ConcCalls)
          /\ added_charge(NeutralCalls) = 0 - excess_charge
          /\ ib_in.clay_charge + 10 * added_charge(ib_added) = 0
    /\ ib_pc = "fatal" =>
          /\ excess_charge # 0
          /\ exact_counts(excess_charge, ib_in.bulk_ions) = {}
          /\ NeutralCalls = <<>>

\* clay charge -3, one Ca and one Cl asked for by concentration: the excess
\* is -2 and one more Ca neutralises it
C20_Witness ==
    /\ ib_pc = "done"
    /\ ib_in.clay_charge = 0 - 30
    /\ ConcCalls = <<[charge |-> 2, n_atoms |-> 1], [charge |-> 0 - 1, n_atoms |-> 1]>>
    /\ excess_charge = 0 - 2
    /\ NeutralCalls = <<[charge |-> 2, n_atoms |-> 1]>>

\* ------------------------------------------------------------------------
\* Builder.select_molecules_outside_clay (assembly.py 403-420)
\* ------------------------------------------------------------------------
\* atoms of the universe
MaxAtoms == 4

Atoms == 1..MaxAtoms

\* the residues have two atoms each, the last one may have one
resindex(a) == (a + 1) \div 2

\* `residue_group.residues.atoms`: all atoms of the residue
residue_atoms(r) == {a \in Atoms : resindex(a) = r}

\* z coordinates, tenths of Angstrom; the clay atoms lie between
\* clay_min and clay_max
AtomZs == {0, 12, 33, 40}

ClayZs == <<10, 30>>

\* `self.clay_min`, `self.clay_max`
clay_min == ClayZs[1]

clay_max == ClayZs[2]

\* `extra`
SelectExtras == {0, 5}

\* select_outside_clay_stack(atom_group, clay, extra): the atoms of the
\* group above or below the clay, the bounds widened by extra
select_outside_clay_stack(group, z, extra) ==
    {a \in group : z[a] > clay_max + extra \/ z[a] < clay_min - extra}

RECURSIVE SetToSeq(_)
SetToSeq(S) ==
    IF S = {} THEN <<>>
    ELSE LET m == CHOOSE x \in S : \A y \in S : x <= y
         IN  <<m>> \o SetToSeq(S \ {m})

\* atom_group.split("residue"): one group per residue with atoms in it
split_residue(group) ==
    LET rs == SetToSeq({resindex(a) : a \in group})
    IN  [k \in DOMAIN rs |-> group \cap residue_atoms(rs[k])]

\* faulty variant: the group is compared with itself
NeverIncomplete(residue_group) ==
    Cardinality(residue_group) # Cardinality(residue_group)

\* `residue_group.n_atoms != residue_group.residues.atoms.n_atoms`
incomplete(residue_group) ==
    Cardinality(residue_group)
        # Cardinality(UNION {residue_atoms(resindex(a)) : a \in residue_group})

nonSelVars == <<solvVars, argVars, runVars, ilVars, cs_state, bulkVars,
                stageVars, nameVars, sheetVars, stackVars, workspaceVars,
                bulkIonVars, rtVars, rollVars, aiVars, lastVars>>

\* lines 413-416
SelectOutside ==
    /\ sm_pc = "begin"
    /\ selected' = select_outside_clay_stack(sm_in.atomgroup, sm_in.z, sm_in.extra)
    /\ atom_group' = selected'
    /\ residue_groups' = split_residue(selected')
    /\ sm_pc' = "loop"
    /\ UNCHANGED <<sm_in, nonSelVars>>

\* one pass of `for residue_group in residue_groups`, the group is dropped
SelectDrop ==
    /\ sm_pc = "loop"
    /\ residue_groups # <<>>
    /\ incomplete(Head(residue_groups))
    /\ atom_group' = atom_group \ Head(residue_groups)
    /\ residue_groups' = Tail(residue_groups)
    /\ UNCHANGED <<sm_pc, sm_in, selected, nonSelVars>>

\* one pass of the loop, the group is a whole residue
SelectKeep ==
    /\ sm_pc = "loop"
    /\ residue_groups # <<>>
    /\ ~incomplete(Head(residue_groups))
    /\ residue_groups' = Tail(residue_groups)
    /\ UNCHANGED <<sm_pc, sm_in, selected, atom_group, nonSelVars>>

\* `return atom_group`
SelectReturn ==
    /\ sm_pc = "loop"
    /\ residue_groups = <<>>
    /\ sm_pc' = "done"
    /\ UNCHANGED <<sm_in, selected, atom_group, residue_groups, nonSelVars>>

\* select_molecules_outside_clay(atomgroup, extra) is called
SelectInit ==
    /\ NoSolvent
    /\ NoPipeline
    /\ NoStage
    /\ NoNames
    /\ NoSheets
    /\ NoStack
    /\ NoWorkspace
    /\ NoBulkIons
    /\ NoRoundTrip
    /\ NoRoll
    /\ NoIlIonFiles
    /\ NoLast
    /\ sm_pc = "begin"
    /\ sm_in \in [z : [Atoms -> AtomZs], atomgroup : SUBSET Atoms,
                   extra : SelectExtras]
    /\ selected = {}
    /\ atom_group = {}
    /\ residue_groups = <<>>

SelectNext ==
    \/ SelectOutside
    \/ SelectDrop
    \/ SelectKeep
    \/ SelectReturn

SelectSpec == SelectInit /\ [][SelectNext]_vars

\* C21: what select_molecules_outside_clay returns is part of the atoms
\* selected as outside the widened clay bounds, and of every residue it holds
\* all atoms or none.
C21_WholeResiduesOutside ==
    sm_pc = "done" =>
        /\ atom_group \subseteq selected
        /\ \A a \in atom_group :
              sm_in.z[a] > clay_max + sm_in.extra
                  \/ sm_in.z[a] < clay_min - sm_in.extra
        /\ \A a \in Atoms :
              \/ residue_atoms(resindex(a)) \subseteq atom_group
              \/ residue_atoms(resindex(a)) \cap atom_group = {}

\* the first residue lies across the upper bound and is left out, the second
\* is outside and returned
C21_Witness ==
    /\ sm_pc = "done"
    /\ sm_in.atomgroup = Atoms
    /\ sm_in.z[1] = 12 /\ sm_in.z[2] = 33 /\ sm_in.extra = 0
    /\ selected = {2, 3, 4}
    /\ atom_group = {3, 4}

C23_ConstructEitherDirection ==
    solv_pc # "none" =>
        /\ (args_n_waters # None /\ args_il_solv_height = None) =>
              /\ solv_pc # "init_error"
              /\ n_mols = args_n_waters
              /\ base0 = get_solvent_sheet_height(args_n_waters, x_dim, y_dim)
        /\ (args_n_waters = None /\ args_il_solv_height # None) =>
              /\ solv_pc # "init_error"
              /\ base0 = args_il_solv_height
              /\ n_mols = get_sheet_solvent_mols(args_il_solv_height,
                                                 x_dim, y_dim)
        /\ ((args_n_waters = None) = (args_il_solv_height = None)) =>
              /\ solv_pc = "init_error"
              /\ run_pc \in {"solvate_clay_sheets", "error"}
              /\ run_pc = "error" => run_err = "ValueError"

\* the height alone was given and the Solvent has written its sheet
C23_Witness ==
    /\ args_n_waters = None
    /\ args_il_solv_height = 30
    /\ solv_pc = "returned"
    /\ base0 = 30
    /\ n_mols > 0

\* ------------------------------------------------------------------------
\* extend_box: the order of its effects (StageSpec; assembly.py 296-318)
\* ------------------------------------------------------------------------
\* the file of the current stack
stack_file == files[stack]

\* the steps of an extending extend_box call, each with the step after it
ExtendOrder ==
    [remove_SOL |-> "add_resnum", add_resnum |-> "center",
     center |-> "stamp", stamp |-> "recenter", recenter |-> "check"]

\* C26: extend_box strips SOL, centres, stamps the new height on the "ext"
\* file and centres again: a change of the height of the stack is made only
\* by the stamping step, on a stripped and centred stack, the centring
\* follows it unless a step raises, and the method never returns with the
\* height changed and the clay not centred.
C26_HeightChangeThenCentre ==
    /\ [][st_pc.m = "extend_box" /\ st_pc'.m # "failed" =>
            /\ st_pc.s \in DOMAIN ExtendOrder =>
                  st_pc' = [m |-> "extend_box", s |-> ExtendOrder[st_pc.s]]
            /\ st_pc.s = "remove_SOL" => ~stack_file'.sol
            /\ st_pc.s \in {"center", "recenter"} =>
                  /\ stack_file'.ctr
                  /\ stack_file'.h = stack_file.h
                  /\ stack' = stack
            /\ st_pc.s = "stamp" =>
                  /\ ~stack_file.sol /\ stack_file.ctr
                  /\ stack' = tmp_file("ext")
                  /\ stack_file'.h = box_height.value
            /\ stack_file'.h # stack_file.h => st_pc.s = "stamp"]_vars
    /\ [](At("idle", "extended") /\ stack_file.h # entry.h => stack_file.ctr)

\* extend_box has returned with a higher box and the clay in the middle
C26_Witness ==
    /\ At("idle", "extended")
    /\ extended_box
    /\ stack = tmp_file("ext")
    /\ stack_file.h > entry.h
    /\ stack_file.ctr /\ ~stack_file.sol

\* ------------------------------------------------------------------------
\* The bulk methods without a bulk space (StageSpec; assembly.py 341, 442)
\* ------------------------------------------------------------------------
\* solvate_box or add_bulk_ions was called and has not done anything yet
InBulkMethod ==
    st_pc.m \in {"solvate_box", "add_bulk_ions"} /\ st_pc.s = "guard"

\* C31: with extended_box False, solvate_box and add_bulk_ions return at once
\* with the stack handle, every file and the flag as they were; the steps that
\* call the solvation or the insertion service are not entered.
C31_BulkMethodsSkipUnextended ==
    [][(InBulkMethod /\ extended_box = FALSE) =>
          /\ st_pc'.m = "idle"
          /\ stack' = stack /\ stack = entry.stack
          /\ files' = files
          /\ extended_box' = extended_box]_vars

\* add_bulk_ions has returned on a stack that extend_box left as it was: the
\* stack handle is still the one stack_sheets made
C31_Witness ==
    /\ At("idle", "ionised")
    /\ extended_box = FALSE
    /\ entry.extended = FALSE
    /\ stack = tmp_file("stack")
    /\ files[stack] = entry.content
    /\ files[tmp_file("solv")] = NoFile
    /\ files[tmp_file("solv_ions")] = NoFile

\* ------------------------------------------------------------------------
\* The stack handle and the output directory (StageSpec; assembly.py 711-735)
\* ------------------------------------------------------------------------
\* a file of the model is a structure with its topology: the setter copies
\* the two together, lines 718-729

\* the file in the output directory named as path
in_outpath(fs, path) == fs[outpath_file(path)]

C33_UnparsedReportRetried ==
    [][(solv_pc = "check" /\ solv = None) =>
          /\ solv_pc' = "loop"
          /\ z_padding' = z_padding + z_padding_increment
          /\ underfills' = Min(underfills + 1, MaxAttempts)
          /\ UNCHANGED <<z_dim_, n_mols, writes, attempts, boxes,
                         universe_set>>]_vars

\* three reports without a count took the padding over the ceiling
C33_Witness ==
    /\ solv_pc = "raised"
    /\ solv = None /\ prev_solv = None
    /\ attempts = 3
    /\ underfills = 3
    /\ padding_exceeded(z_padding)
    /\ ~universe_set

\* ------------------------------------------------------------------------
\* Solvent: what `write` leaves on the object (assembly.py 1035-1043, 1124-1126)
\* ------------------------------------------------------------------------
\* the name under which `self.__x = ..` in the body of class cls is stored
private_name(cls, name) == "_" \o cls \o name

\* the attributes that `write` has assigned on the Solvent and their values
solvent_attributes ==
    IF universe_set
    THEN {<<private_name("Solvent", "__universe"), "spc_gro.universe">>,
          <<private_name("Solvent", "__top"), "topology">>}
    ELSE {}

\* getattr(self, name, None): the name is looked up as the string it is
getattr_or_None(name) ==
    IF \E a \in solvent_attributes : a[1] = name
    THEN (CHOOSE a \in solvent_attributes : a[1] = name)[2]
    ELSE "None"

\* Solvent.universe
universe == getattr_or_None("__universe")

\* Solvent.topology
topology == getattr_or_None("__top")

\* C25: after write has returned, Solvent.universe is the structure that write
\* stored and Solvent.topology is the topology passed to write.
C25_WrittenStructureVisible ==
    solv_pc = "returned" =>
        /\ universe = "spc_gro.universe"
        /\ topology = "topology"

\* ------------------------------------------------------------------------
\* Solvent: height of a count and count of that height (assembly.py 1051-1068)
\* ------------------------------------------------------------------------
\* `mols_sol` goes up to
MaxMols == 20

\* a float height is kept as a whole number of 1/HeightGrid Angstrom, far
\* coarser than a double
HeightGrid == 10000

\* x_dim, y_dim of the Solvent, Angstrom
RoundTripDims == {<<10, 10>>, <<7, 10>>, <<21, 36>>, <<31, 45>>}

\* the float that get_solvent_sheet_height may return: the quotient itself
\* or, when it is not on the grid, either neighbour
float_heights(mols_sol, x, y) ==
    LET lo == solvent_sheet_height(mols_sol, x, y, HeightGrid)
    IN  IF lo * (x * y) = MolVolume * mols_sol * HeightGrid
        THEN {lo}
        ELSE {lo, lo + 1}

nonRtVars == <<solvVars, argVars, runVars, ilVars, cs_state, bulkVars,
               stageVars, nameVars, sheetVars, stackVars, workspaceVars,
               bulkIonVars, selVars, rollVars, aiVars, lastVars>>

\* height = solvent.get_solvent_sheet_height(n)
RoundTripHeight ==
    /\ rt_pc = "begin"
    /\ rt_height' \in float_heights(rt_in.n, rt_in.x_dim, rt_in.y_dim)
    /\ rt_pc' = "height"
    /\ UNCHANGED <<rt_in, rt_mols, nonRtVars>>

\* solvent.get_sheet_solvent_mols(height)
RoundTripMols ==
    /\ rt_pc = "height"
    /\ rt_mols' = sheet_solvent_mols(rt_height, rt_in.x_dim, rt_in.y_dim,
                                     HeightGrid)
    /\ rt_pc' = "mols"
    /\ UNCHANGED <<rt_in, rt_height, nonRtVars>>

\* a Solvent with positive dimensions and a positive count
RoundTripInit ==
    /\ NoSolvent
    /\ NoPipeline
    /\ NoStage
    /\ NoNames
    /\ NoSheets
    /\ NoStack
    /\ NoWorkspace
    /\ NoBulkIons
    /\ NoSelection
    /\ NoRoll
    /\ NoIlIonFiles
    /\ NoLast
    /\ rt_pc = "begin"
    /\ \E n \in 1..MaxMols, dims \in RoundTripDims :
          rt_in = [n |-> n, x_dim |-> dims[1], y_dim |-> dims[2]]
    /\ rt_height = None
    /\ rt_mols = None

RoundTripNext ==
    \/ RoundTripHeight
    \/ RoundTripMols

RoundTripSpec == RoundTripInit /\ [][RoundTripNext]_vars

\* C24: the count of the height of n molecules is n.
C24_HeightCountRoundTrip ==
    rt_pc = "mols" => rt_mols = rt_in.n

\* 7 molecules on 21 x 36 Angstrom: the height is not on the grid
C24_Witness ==
    /\ rt_pc = "mols"
    /\ rt_in = [n |-> 7, x_dim |-> 21, y_dim |-> 36]
    /\ rt_height = 2777
    /\ rt_mols = 7

\* ------------------------------------------------------------------------
\* stack_sheets: the interlayer ions of every pass (assembly.py 561-581)
\* ------------------------------------------------------------------------
\* the interlayer holds up to
MaxIlIons == 5

\* residue names of the interlayer ions; each ion is one atom and one residue
IonNames == {"Na", "Ca"}

\* the rows that np.roll moves by, line 567
RollShift == 3

\* np.roll(a, shift, axis=0): row i of a becomes row i + shift, cyclically
np_roll(a, shift) ==
    [i \in DOMAIN a |-> a[((i - 1 - shift) % Len(a)) + 1]]

nonRollVars == <<solvVars, argVars, runVars, ilVars, cs_state, bulkVars,
                 stageVars, nameVars, sheetVars, stackVars, workspaceVars,
                 bulkIonVars, selVars, rtVars, aiVars, lastVars>>

\* one pass of the loop over the sheets, lines 561-567: the ions of a new
\* copy of il_u get the rolled positions
RollPass ==
    /\ roll_pc = "loop"
    /\ Len(il_copies) < roll_in.n_sheets
    /\ LET il_u_copy == il_u_positions
           il_ions == np_roll(il_u_copy, RollShift)
       IN  il_copies' = Append(il_copies, il_ions)
    /\ UNCHANGED <<roll_pc, roll_in, il_u_positions, nonRollVars>>

\* the loop is over
RollLoopEnd ==
    /\ roll_pc = "loop"
    /\ Len(il_copies) = roll_in.n_sheets
    /\ roll_pc' = "done"
    /\ UNCHANGED <<roll_in, il_u_positions, il_copies, nonRollVars>>

\* an interlayer with ions, each at a place of its own
RollInit ==
    /\ NoSolvent
    /\ NoPipeline
    /\ NoStage
    /\ NoNames
    /\ NoSheets
    /\ NoStack
    /\ NoWorkspace
    /\ NoBulkIons
    /\ NoSelection
    /\ NoRoundTrip
    /\ NoIlIonFiles
    /\ NoLast
    /\ roll_pc = "loop"
    /\ \E n \in 1..MaxIlIons :
          /\ roll_in \in [n_sheets : 1..MaxSheets, names : [1..n -> IonNames]]
          /\ il_u_positions = [i \in 1..n |-> i]
    /\ il_copies = <<>>

RollNext ==
    \/ RollPass
    \/ RollLoopEnd

RollSpec == RollInit /\ [][RollNext]_vars

\* the ions of one pass: which kind of ion is at which place
arrangement(positions) ==
    {<<roll_in.names[i], positions[i]>> : i \in DOMAIN positions}

\* C28: in every pass the ion positions are those of the interlayer rotated
\* by one residue, the same places are occupied, and with more than one
\* sheet and ions of two kinds not every layer has the same ion at the same
\* place.
C28_IonsRotatedPerLayer ==
    roll_pc = "done" =>
        /\ \A k \in DOMAIN il_copies :
              /\ il_copies[k] \in {np_roll(il_u_positions, 1),
                                    np_roll(il_u_positions, 0 - 1)}
              /\ Range(il_copies[k]) = Range(il_u_positions)
        /\ (roll_in.n_sheets > 1 /\ Range(roll_in.names) = IonNames) =>
              \E j, k \in DOMAIN il_copies :
                  arrangement(il_copies[j]) # arrangement(il_copies[k])

\* ------------------------------------------------------------------------
\* add_il_ions: the files it reads and writes (assembly.py 737-804)
\* ------------------------------------------------------------------------
\* SOL molecules in the interlayer file before the ions are added
IlWaters == {3, 4, 5}

\* args.n_il_ions values
IlIonDicts ==
    IonDicts \cup
    { [is_dict |-> TRUE,
       items |-> <<[ion |-> "Ca", n |-> 1], [ion |-> "Na", n |-> 1],
                   [ion |-> "K", n |-> 1]>>],
      [is_dict |-> TRUE,
       items |-> <<[ion |-> "Na", n |-> 2], [ion |-> "Cl", n |-> 0]>>] }

\* run_gmx_insert_mols(f, ci, nmol, o, replace="SOL"): the file o is f with
\* the placed ions in place of as many SOL molecules
run_gmx_insert_mols(fs, f, ion, placed, o) ==
    [fs EXCEPT ![o] = [sol |-> Max(fs[f].sol - placed, 0),
                       ions |-> Append(fs[f].ions,
                                       [ion |-> ion, n |-> placed])]]

\* faulty variant: the ions are inserted into the interlayer file itself
InsertInPlace(fs, ion, placed) ==
    run_gmx_insert_mols(fs, "infile", ion, placed, "infile")

\* lines 776-784: f=temp_gro, o=temp_gro
insert_in_temp(fs, ion, placed) ==
    run_gmx_insert_mols(fs, "temp_gro", ion, placed, "temp_gro")

nonAiVars == <<solvVars, argVars, runVars, ilVars, cs_state, bulkVars,
               stageVars, nameVars, sheetVars, stackVars, workspaceVars,
               bulkIonVars, selVars, rtVars, rollVars, lastVars>>

AiItems == ai_in.items

\* the loop over the species is not exhausted
AiLeft == ai_in.is_dict /\ ai_idx <= Len(AiItems)

\* lines 739-744: infile is copied to a new temporary file
AddIlIonsCopy ==
    /\ ai_pc = "begin"
    /\ ai_entry' = [files |-> ai_files, handle |-> ai_handle]
    /\ ai_files' = [ai_files EXCEPT !.temp_gro = ai_files.infile]
    /\ ai_idx' = 1
    /\ ai_pc' = "loop"
    /\ UNCHANGED <<ai_in, ai_handle, ai_reports, nonAiVars>>

\* `if n_ions != 0` is false: next species
AddIlIonsSkipZero ==
    /\ ai_pc = "loop"
    /\ AiLeft
    /\ AiItems[ai_idx].n = 0
    /\ ai_idx' = ai_idx + 1
    /\ UNCHANGED <<ai_pc, ai_in, ai_files, ai_handle, ai_entry, ai_reports,
                   nonAiVars>>

\* lines 750-791: one species is inserted and the file is centred
AddIlIonsInsert ==
    /\ ai_pc = "loop"
    /\ AiLeft
    /\ AiItems[ai_idx].n # 0
    /\ \E placed \in InsertReports(AiItems[ai_idx].n) :
          /\ ai_files' = insert_in_temp(ai_files, AiItems[ai_idx].ion, placed)
          /\ ai_reports' = Append(ai_reports, placed)
    /\ ai_pc' = "check"
    /\ UNCHANGED <<ai_in, ai_idx, ai_handle, ai_entry, nonAiVars>>

\* lines 792-799, the counts differ: ValueError leaves the `with` blocks and
\* the temporary file is removed
AddIlIonsRaise ==
    /\ ai_pc = "check"
    /\ insert_count_mismatch(
          check_insert_numbers(ai_reports[Len(ai_reports)]), AiItems[ai_idx].n)
    /\ ai_files' = [ai_files EXCEPT !.temp_gro = Absent]
    /\ ai_pc' = "raised"
    /\ UNCHANGED <<ai_in, ai_idx, ai_handle, ai_entry, ai_reports, nonAiVars>>

\* lines 792-795, the counts agree: next species
AddIlIonsNext ==
    /\ ai_pc = "check"
    /\ ~insert_count_mismatch(
          check_insert_numbers(ai_reports[Len(ai_reports)]), AiItems[ai_idx].n)
    /\ ai_idx' = ai_idx + 1
    /\ ai_pc' = "loop"
    /\ UNCHANGED <<ai_in, ai_files, ai_handle, ai_entry, ai_reports,
                   nonAiVars>>

\* lines 800-802: the content of the temporary file is written to infile,
\* the setter of il_solv copies the file of the current handle to outpath
\* and makes a new handle; the temporary file is removed
AddIlIonsWriteBack ==
    /\ ai_pc = "loop"
    /\ ~AiLeft
    /\ ai_files' = [infile |-> ai_files.temp_gro,
                    temp_gro |-> Absent,
                    outpath |-> ai_files.temp_gro]
    /\ ai_handle' = [ai_handle EXCEPT !.id = @ + 1]
    /\ ai_pc' = "returned"
    /\ UNCHANGED <<ai_in, ai_idx, ai_entry, ai_reports, nonAiVars>>

\* the Builder after solvate_clay_sheets: the il_solv handle was assigned
\* once, which copied the solvated interlayer to outpath
AddIlIonsInit ==
    /\ NoSolvent
    /\ NoPipeline
    /\ NoStage
    /\ NoNames
    /\ NoSheets
    /\ NoStack
    /\ NoWorkspace
    /\ NoBulkIons
    /\ NoSelection
    /\ NoRoundTrip
    /\ NoRoll
    /\ NoLast
    /\ ai_pc = "begin"
    /\ ai_in \in IlIonDicts
    /\ ai_idx = 0
    /\ \E w \in IlWaters :
          LET solvated == [sol |-> w, ions |-> <<>>]
          IN  ai_files = [infile |-> solvated, temp_gro |-> Absent,
                          outpath |-> solvated]
    /\ ai_handle = [file |-> "infile", id |-> 1]
    /\ ai_entry = [files |-> ai_files, handle |-> ai_handle]
    /\ ai_reports = <<>>

AddIlIonsSteps ==
    \/ AddIlIonsCopy
    \/ AddIlIonsSkipZero
    \/ AddIlIonsInsert
    \/ AddIlIonsRaise
    \/ AddIlIonsNext
    \/ AddIlIonsWriteBack

AddIlIonsSpec == AddIlIonsInit /\ [][AddIlIonsSteps]_vars

\* C29: while add_il_ions inserts, and after it has raised for a count that
\* does not match, the il_solv handle, the interlayer file and the copy in
\* the output directory are what they were when it was called; only the
\* temporary file has changed.
C29_FailureLeavesInterlayer ==
    ai_pc \in {"loop", "check", "raised"} =>
        /\ ai_handle = ai_entry.handle
        /\ ai_files.infile = ai_entry.files.infile
        /\ ai_files.outpath = ai_entry.files.outpath

\* the second species that was inserted came out one short, after the first
\* had been inserted into the temporary file
C29_Witness ==
    /\ ai_pc = "raised"
    /\ ai_reports = <<2, 0>>
    /\ ai_files.temp_gro = Absent
    /\ ai_files.infile = [sol |-> 5, ions |-> <<>>]

\* ------------------------------------------------------------------------
\* run_em: the output directory after the relaxation (assembly.py 213-253)
\* ------------------------------------------------------------------------
\* a regular file named stem.ext, the stem given by its parts between "_"
File(stem, ext) == [stem |-> stem, ext |-> ext, is_dir |-> FALSE]

\* what may be in args.outpath before run_em: a note, an earlier structure,
\* a structure named em.gro, a topology of an earlier relaxation, a directory
Candidates ==
    {File(<<"notes">>, "txt"), File(<<"old">>, "gro"), File(<<"em">>, "gro"),
     File(<<"y", "em">>, "top"),
     [stem |-> <<"sub">>, ext |-> "", is_dir |-> TRUE]}

\* args.outpath is named
OutpathNames == {"out", "EM"}

\* the stack before run_em: x.gro in the scratch directory
TmpStack == [in |-> "tmp", file |-> File(<<"x">>, "gro")]

\* lib.run_em(odir=outpath, outname=stem_em): the files the relaxation
\* leaves in odir, with the relaxed structure or without
run_em_files(stem, with_gro) ==
    {File(Append(stem, "em"), "log"), File(Append(stem, "em"), "tpr")}
        \cup (IF with_gro THEN {File(Append(stem, "em"), "gro")} ELSE {})

\* Dir._get_filelist(ext), gro_filelist, itp_filelist: the files of the
\* directory with that extension
get_filelist(entries, ext) == {e \in entries : ~e.is_dir /\ e.ext = ext}

\* faulty variant: the list without the logs
CrdTopFilesNoLog(entries) ==
    UNION {get_filelist(entries, ext) :
              ext \in {"gro", "itp", "top", "csv", "mdp", "edr", "trr"}}

\* crd_top_files, lines 227-236
crd_top_files(entries) ==
    UNION {get_filelist(entries, ext) :
              ext \in {"gro", "itp", "top", "csv", "mdp", "edr", "trr", "log"}}

\* `file.stem.split("_")[-1] == "em"`
stem_ends_em(file) == file.stem[Len(file.stem)] = "em"

nonEcVars == <<solvVars, argVars, runVars, ilVars, cs_state, bulkVars,
               stageVars, nameVars, sheetVars, stackVars, workspaceVars,
               bulkIonVars, selVars, rtVars, rollVars, aiVars, rnVars>>

\* lines 213-236: the relaxation has run, the lists of files are made and
\* the loop over outpath.iterdir() starts
RunEmRelax ==
    /\ ec_pc = "begin"
    /\ \E with_gro \in BOOLEAN :
          ec_outpath' = ec_outpath \cup run_em_files(ec_stack.file.stem,
                                                      with_gro)
    /\ ec_listing' = ec_outpath'
    /\ ec_todo' = ec_outpath'
    /\ ec_pc' = "loop"
    /\ UNCHANGED <<ec_name, ec_em, ec_stack, nonEcVars>>

\* lines 239-252, one pass: the entry is removed, or moved to EM and made
\* the stack, or left; the setter of the stack copies the file of the
\* handle it replaces into outpath
RunEmVisit ==
    /\ ec_pc = "loop"
    /\ \E file \in ec_todo :
          /\ ec_todo' = ec_todo \ {file}
          /\ IF file \notin crd_top_files(ec_listing) /\ ~file.is_dir
             THEN /\ ec_outpath' = ec_outpath \ {file}
                  /\ UNCHANGED <<ec_em, ec_stack>>
             ELSE IF stem_ends_em(file)
             THEN LET moved == ec_name # "EM"
                      set == file.ext = "gro"
                      left == IF moved THEN ec_outpath \ {file}
                              ELSE ec_outpath
                  IN  /\ ec_em' = IF moved THEN ec_em \cup {file} ELSE ec_em
                      /\ ec_outpath' = IF set
                                       THEN left \cup {ec_stack.file}
                                       ELSE left
                      /\ ec_stack' = IF set
                                     THEN [in |-> IF moved THEN "EM"
                                                  ELSE "outpath",
                                           file |-> file]
                                     ELSE ec_stack
             ELSE UNCHANGED <<ec_outpath, ec_em, ec_stack>>
    /\ UNCHANGED <<ec_pc, ec_name, ec_listing, nonEcVars>>

\* the loop is over: run_em returns
RunEmReturn ==
    /\ ec_pc = "loop"
    /\ ec_todo = {}
    /\ ec_pc' = "done"
    /\ UNCHANGED <<ec_name, ec_listing, ec_todo, ec_outpath, ec_em, ec_stack,
                   nonEcVars>>

\* a Builder before run_em, with anything in its output directory
RunEmInit ==
    /\ NoSolvent
    /\ NoPipeline
    /\ NoStage
    /\ NoNames
    /\ NoSheets
    /\ NoStack
    /\ NoWorkspace
    /\ NoBulkIons
    /\ NoSelection
    /\ NoRoundTrip
    /\ NoRoll
    /\ NoIlIonFiles
    /\ NoResnames
    /\ ec_pc = "begin"
    /\ ec_name \in OutpathNames
    /\ ec_outpath \in SUBSET Candidates
    /\ ec_listing = {}
    /\ ec_todo = {}
    /\ ec_em = {}
    /\ ec_stack = TmpStack

RunEmNext ==
    \/ RunEmRelax
    \/ RunEmVisit
    \/ RunEmReturn

RunEmSpec == RunEmInit /\ [][RunEmNext]_vars

\* the extensions that are kept
KeptExtensions == {"gro", "itp", "top", "csv", "mdp", "edr", "trr", "log"}

\* the listed entries that the loop must not remove
KeptEntries == {e \in ec_listing : e.is_dir \/ e.ext \in KeptExtensions}

\* the stem is "em" or ends in "_em"
LastPartEm(e) == e.stem # <<>> /\ e.stem[Len(e.stem)] = "em"

\* the stem ends in "_em"
EndsUnderscoreEm(e) == Len(e.stem) > 1 /\ e.stem[Len(e.stem)] = "em"

\* C34 as stated: after run_em every listed regular file with another
\* extension is gone, no directory and no file with a kept extension is,
\* the kept files whose stem ends in "_em" are in EM and not in outpath, and
\* the stack is one of the moved "_em" .gro files if there is one and is
\* unchanged otherwise.
C34_CleanupAsStated ==
    ec_pc = "done" =>
        /\ \A e \in ec_listing \ KeptEntries : e \notin ec_outpath \cup ec_em
        /\ \A e \in KeptEntries : e \in ec_outpath \cup ec_em
        /\ \A e \in KeptEntries :
              EndsUnderscoreEm(e) => e \in ec_em /\ e \notin ec_outpath
        /\ LET em_gro == {e \in KeptEntries :
                             EndsUnderscoreEm(e) /\ e.ext = "gro"}
           IN  IF em_gro # {}
               THEN ec_stack.in = "EM" /\ ec_stack.file \in em_gro
               ELSE ec_stack = TmpStack

\* C34 amended: the removals are as stated; a kept entry is moved when the
\* last part of its stem is "em", which includes the stem "em" itself, and
\* only if outpath is not itself named EM; a moved .gro file that was the
\* stack for a while is copied back when the next one replaces it; the
\* stack ends as one of the .gro files with such a stem, where it now is,
\* and is unchanged if there is none; other kept entries stay in outpath.
C34_CleanupByLastPart ==
    ec_pc = "done" =>
        /\ \A e \in ec_listing \ KeptEntries : e \notin ec_outpath \cup ec_em
        /\ \A e \in KeptEntries : e \in ec_outpath \cup ec_em
        /\ \A e \in KeptEntries :
              IF LastPartEm(e) /\ ec_name # "EM"
              THEN /\ e \in ec_em
                   /\ e \in ec_outpath => e.ext = "gro" /\ e # ec_stack.file
              ELSE e \in ec_outpath /\ e \notin ec_em
        /\ LET em_gro == {e \in KeptEntries : LastPartEm(e) /\ e.ext = "gro"}
           IN  IF em_gro # {}
               THEN /\ ec_stack.file \in em_gro
                    /\ ec_stack.in = IF ec_name # "EM" THEN "EM" ELSE "outpath"
               ELSE ec_stack = TmpStack

\* a note and the run input of the relaxation are gone, the earlier
\* structure is still there, the relaxed structure is in EM and is the stack
C34_Witness ==
    /\ ec_pc = "done"
    /\ ec_name = "out"
    /\ File(<<"notes">>, "txt") \in ec_listing \ ec_outpath
    /\ File(<<"x", "em">>, "tpr") \in ec_listing \ ec_outpath
    /\ File(<<"old">>, "gro") \in ec_outpath
    /\ File(<<"x", "em">>, "log") \in ec_em
    /\ ec_stack = [in |-> "EM", file |-> File(<<"x", "em">>, "gro")]

\* ------------------------------------------------------------------------
\* Residue names of interlayer and bulk solvent (assembly.py 176-187,
\* 564-574, 323-331)
\* ------------------------------------------------------------------------
\* rename_il_solv is called up to
MaxRenames == 2

\* the residue names of a solvated interlayer, in file order
IlResnames ==
    {<<"SOL">>, <<"SOL", "SOL", "Na">>, <<"Na", "SOL", "Cl", "SOL">>}

\* re.sub(pattern, repl, resname) for residue names that hold the pattern
\* as a whole or not at all
re_sub(pattern, repl, resname) ==
    IF resname = pattern THEN repl ELSE resname

\* `list(map(lambda resname: re.sub(pattern, repl, resname), resnames))`
\* assigned to the residues
renamed(residues, pattern, repl) ==
    [i \in DOMAIN residues |->
        [residues[i] EXCEPT !.resname = re_sub(pattern, repl, @)]]

\* faulty variant: every sheet is taken for the last one
EverySheetLast(sheet_id, n_sheets) == TRUE

\* `if sheet_id == self.args.n_sheets - 1:`
last_sheet(sheet_id, n_sheets) == sheet_id = n_sheets - 1

\* `select_atoms("not resname SOL")`
not_SOL(residues) == SelectSeq(residues, LAMBDA r : r.resname # "SOL")

nonRnVars == <<solvVars, argVars, runVars, ilVars, cs_state, bulkVars,
               stageVars, nameVars, sheetVars, stackVars, workspaceVars,
               bulkIonVars, selVars, rtVars, rollVars, aiVars, ecVars>>

\* Builder.rename_il_solv: the residues of the interlayer file are renamed
\* and the file is written
RenameIlSolv ==
    /\ rn_pc = "interlayer"
    /\ rn_renames < MaxRenames
    /\ il_residues' = renamed(il_residues, "SOL", "iSL")
    /\ rn_renames' = rn_renames + 1
    /\ UNCHANGED <<rn_pc, rn_in, il_u_copies, stack_residues, stack_before,
                   nonRnVars>>

\* stack_sheets is called
StackSheetsCall ==
    /\ rn_pc = "interlayer"
    /\ rn_pc' = "stacking"
    /\ UNCHANGED <<rn_in, il_residues, rn_renames, il_u_copies,
                   stack_residues, stack_before, nonRnVars>>

\* stack_sheets, one pass of the loop (561-586): the sheet and, above it,
\* a copy of the interlayer, renamed for the last sheet
StackSheetsPass ==
    /\ rn_pc = "stacking"
    /\ Len(il_u_copies) < rn_in.n_sheets
    /\ LET sheet_id == Len(il_u_copies)
           il_u_copy == IF last_sheet(sheet_id, rn_in.n_sheets)
                        THEN renamed(il_residues, "iSL", "SOL")
                        ELSE il_residues
           sheet_u == <<[resname |-> "clay", pos |-> 0, sheet |-> sheet_id]>>
           merged == sheet_u \o
                     [i \in DOMAIN il_u_copy |->
                         [resname |-> il_u_copy[i].resname,
                          pos |-> il_u_copy[i].pos, sheet |-> sheet_id]]
       IN  /\ il_u_copies' = Append(il_u_copies, il_u_copy)
           /\ stack_residues' = stack_residues \o merged
    /\ UNCHANGED <<rn_pc, rn_in, il_residues, rn_renames, stack_before,
                   nonRnVars>>

\* stack_sheets, the loop is over: the slabs are merged into the stack
StackSheetsMerged ==
    /\ rn_pc = "stacking"
    /\ Len(il_u_copies) = rn_in.n_sheets
    /\ rn_pc' = "stacked"
    /\ UNCHANGED <<rn_in, il_residues, rn_renames, il_u_copies,
                   stack_residues, stack_before, nonRnVars>>

\* Builder.remove_SOL on the stack, as extend_box and solvate_box call it
RemoveSOL ==
    /\ rn_pc = "stacked"
    /\ stack_before' = stack_residues
    /\ stack_residues' = not_SOL(stack_residues)
    /\ rn_pc' = "stripped"
    /\ UNCHANGED <<rn_in, il_residues, rn_renames, il_u_copies, nonRnVars>>

\* the Builder after solvate_clay_sheets and add_il_ions
ResnameInit ==
    /\ NoSolvent
    /\ NoPipeline
    /\ NoStage
    /\ NoNames
    /\ NoSheets
    /\ NoStack
    /\ NoWorkspace
    /\ NoBulkIons
    /\ NoSelection
    /\ NoRoundTrip
    /\ NoRoll
    /\ NoIlIonFiles
    /\ NoEmFiles
    /\ rn_pc = "interlayer"
    /\ rn_in \in [n_sheets : 1..MaxSheets, residues : IlResnames]
    /\ il_residues = [i \in DOMAIN rn_in.residues |->
                         [resname |-> rn_in.residues[i], pos |-> i]]
    /\ rn_renames = 0
    /\ il_u_copies = <<>>
    /\ stack_residues = <<>>
    /\ stack_before = <<>>

ResnameNext ==
    \/ RenameIlSolv
    \/ StackSheetsCall
    \/ StackSheetsPass
    \/ StackSheetsMerged
    \/ RemoveSOL

ResnameSpec == ResnameInit /\ [][ResnameNext]_vars

\* the residue names in a sequence of residues
Resnames(residues) == {residues[i].resname : i \in DOMAIN residues}

\* the residues of a sequence that are named name
Named(residues, name) == SelectSeq(residues, LAMBDA r : r.resname = name)

\* C36: rename_il_solv changes SOL to iSL and nothing else, once or twice
\* alike; after it, the interlayer copies of all sheets but the last hold
\* iSL and no SOL and the copy of the last sheet holds SOL and no iSL;
\* remove_SOL takes the SOL residues out of the stack and leaves every other
\* residue, iSL included, as it was.
C36_InterlayerSolventTagged ==
    /\ rn_renames > 0 =>
          /\ Len(il_residues) = Len(rn_in.residues)
          /\ \A i \in DOMAIN il_residues :
                /\ il_residues[i].pos = i
                /\ il_residues[i].resname =
                      IF rn_in.residues[i] = "SOL" THEN "iSL"
                      ELSE rn_in.residues[i]
          /\ \A k \in DOMAIN il_u_copies :
                IF k = rn_in.n_sheets
                THEN /\ "iSL" \notin Resnames(il_u_copies[k])
                     /\ "SOL" \in Resnames(il_u_copies[k])
                ELSE /\ "SOL" \notin Resnames(il_u_copies[k])
                     /\ "iSL" \in Resnames(il_u_copies[k])
    /\ rn_pc = "stripped" =>
          /\ "SOL" \notin Resnames(stack_residues)
          /\ Named(stack_residues, "iSL") = Named(stack_before, "iSL")
          /\ stack_residues =
                SelectSeq(stack_before, LAMBDA r : r.resname # "SOL")
          /\ Len(stack_before) - Len(stack_residues) =
                Len(Named(stack_before, "SOL"))

\* three sheets after two renames: the interlayers of the first two keep
\* their iSL through remove_SOL, the solvent above the last sheet is gone
C36_Witness ==
    /\ rn_pc = "stripped"
    /\ rn_renames = 2
    /\ rn_in.n_sheets = 3
    /\ rn_in.residues = <<"SOL", "SOL", "Na">>
    /\ Len(Named(stack_residues, "iSL")) = 4
    /\ Len(stack_before) = 12
    /\ Len(stack_residues) = 10

====
